---- MODULE Spec2Model ----
(***************************************************************************)
(* Model of responsefun: the expression model (sum_over_states.py) and the *)
(* evaluators of evaluate_property.py.                                     *)
(*                                                                         *)
(* A SymPy expression is a record [head, args]: a Mul holds the sequence   *)
(* of its factors in SymPy's argument order, an Add the sequence of its    *)
(* terms.  A factor is a record tagged by its class in field t.  The base  *)
(* of a Pow (a denominator) is the set of its summands, each an atom       *)
(* [k, s, c]: a transition frequency (k = "tf") of state s, a frequency    *)
(* symbol (k = "freq") or the damping term gamma*I (k = "gammaI"), with    *)
(* coefficient c.  Floats are modelled by integers.                        *)
(*                                                                         *)
(* The evaluators are modelled from the point where the SumOverStates      *)
(* object of the call exists; its construction is modelled on its own.     *)
(***************************************************************************)
EXTENDS Integers, Sequences, FiniteSets, TLC

VARIABLES
    pc,               \* position of the running evaluator call
    err,              \* "none" or the exception that ended the call
    sos_expr,         \* sos.expr, the (expanded) SOS expression
    omegas,           \* all_omegas: sequence of <<frequency symbol, value>>
    gamma_val,        \* damping value of the call
    final_state,      \* <<>> (None) or <<state symbol, state number>>
    rvecs_dict_list,  \* result of build_tree: sequence of request maps
    ti,               \* index of the tree entry being processed
    rvecs_dict_mod,   \* request map of that entry after inserting the numbers
    ki,               \* index of the request of rvecs_dict_mod being solved
    response_dict,    \* memo map: placeholder number -> response array
    solve_log,        \* batches of solves handed to solve_response, in order
    summation_indices,         \* sos.summation_indices_str
    excitation_energy,         \* state.excitation_energy_uncorrected
    excluded_cases,   \* sequence of [index, state] pairs given by the caller
    perm_pairs,       \* sequence of [op, freq] pairs given by the caller
    all_omegas,       \* the list of line 189: omegas and the final-state frequency
    adcc_prop_dict,   \* operator types for which AdccProperties were created
    term_list,        \* terms of evaluate_property_sos_fast
    tix,              \* index of the term being processed
    einsum_list,      \* (state labels, component labels, array) of the term
    divergences,      \* divergences recorded for the term
    removed_divergences,       \* cases removed through excluded_cases
    contracted,       \* contractions added to res_tens, in order
    operators,        \* sos._operators
    components,       \* sos._components
    order,            \* sos.order
    expr,             \* sos.expr as the construction assigns it
    evaluator,        \* "isr" or "sos": the substitution-path evaluator running
    symmetric,        \* argument symmetric of the evaluator
    n_terms,          \* length of the evaluator's term_list
    zoo_term,         \* number of the term that evaluates to zoo, 0 for none
    dtype,            \* element type of res_tens
    res_tens,         \* the result tensor: component tuple -> value
    computed,         \* component tuples on which res_tens[c] += res was executed
    subs_dict,        \* substitution dictionary of evaluate_property_isr
    term_ix,          \* loop positions of the assembly: term,
    state_ix,         \*   value of the summation index,
    comp_ix           \*   component tuple

inputVars == <<sos_expr, omegas, gamma_val, final_state, summation_indices,
               excitation_energy, excluded_cases, perm_pairs>>

isrVars == <<rvecs_dict_list, ti, rvecs_dict_mod, ki, response_dict, solve_log>>

fastVars == <<term_list, tix, einsum_list, divergences, removed_divergences,
              contracted>>

ctorVars == <<operators, components, order, expr>>

asmVars == <<evaluator, symmetric, n_terms, zoo_term, res_tens, computed, subs_dict,
             term_ix, state_ix, comp_ix, dtype>>

\* the variables of the assembly an evaluator without substitution leaves alone
loopVars == <<evaluator, symmetric, n_terms, zoo_term, computed, subs_dict, term_ix, state_ix,
              comp_ix>>

callVars == <<all_omegas, adcc_prop_dict>>

vars == <<pc, err, inputVars, callVars, isrVars, fastVars, ctorVars, asmVars>>

\* state of the evaluators that are not running
IsrIdle ==
    /\ rvecs_dict_list = <<>>
    /\ ti = 0
    /\ rvecs_dict_mod = <<>>
    /\ ki = 0
    /\ response_dict = <<>>
    /\ solve_log = <<>>

FastIdle ==
    /\ term_list = <<>>
    /\ tix = 0
    /\ einsum_list = <<>>
    /\ divergences = <<>>
    /\ removed_divergences = {}
    /\ contracted = <<>>

\* no evaluator has been called
CallIdle ==
    /\ all_omegas = <<>>
    /\ adcc_prop_dict = {}

\* sos.expr before line 177 or 179 assigns it
NoExpr == [head |-> "None", args |-> <<>>]

CtorIdle ==
    /\ operators = <<>>
    /\ components = <<>>
    /\ order = 0
    /\ expr = NoExpr

AsmIdle ==
    /\ evaluator = "none"
    /\ symmetric = FALSE
    /\ n_terms = 0
    /\ zoo_term = 0
    /\ res_tens = <<>>
    /\ computed = {}
    /\ subs_dict = {}
    /\ term_ix = 0
    /\ state_ix = 0
    /\ comp_ix = 0
    /\ dtype = "None"

(***************************************************************************)
(* Bounds                                                                  *)
(***************************************************************************)
MaxPlaceholders == 3      \* requests in the tree returned by build_tree
NumStates == 2            \* excited states of the calculation
MaxEnergy == 2            \* largest excitation energy and frequency value
MaxExcluded == 2          \* length of the excluded_cases list
MaxOrder == 2             \* order of the result tensor
MaxTerms == 2             \* entries of the term_list of an evaluator
MaxAddTerms == 2          \* additive terms of an expression given to SumOverStates

(***************************************************************************)
(* Symbolic atoms                                                          *)
(***************************************************************************)
Bra(s) == [t |-> "Bra", label |-> s]

Ket(s) == [t |-> "Ket", label |-> s]

DipoleOperator(c, ty) == [t |-> "DipoleOperator", comp |-> c, op_type |-> ty]

TransitionFrequency(s) == [k |-> "tf", s |-> s, c |-> 1]

Freq(s, c) == [k |-> "freq", s |-> s, c |-> c]

GammaI(c) == [k |-> "gammaI", s |-> "", c |-> c]

Pow(b) == [t |-> "Pow", base |-> b]

Mul(fs) == [head |-> "Mul", args |-> fs]

Add(ts) == [head |-> "Add", args |-> ts]

\* Bra(from_state)*op*Ket(to_state)
TransitionMoment(from_state, op, to_state) == <<Bra(from_state), op, Ket(to_state)>>

\* .args of a denominator: the summands of a sum, nothing for a lone symbol
ArgsOf(b) == IF Cardinality(b) <= 1 THEN {} ELSE b

RECURSIVE Concat(_)
Concat(ss) == IF ss = <<>> THEN <<>> ELSE Head(ss) \o Concat(Tail(ss))

Range(s) == {s[i] : i \in 1..Len(s)}

ABC == <<"A", "B", "C", "D", "E", "F">>

LetterIndex(l) == CHOOSE i \in 1..Len(ABC) : ABC[i] = l

\* list.sort() of the component letters
RECURSIVE SortLetters(_)
SortLetters(ls) ==
    IF ls = <<>> THEN <<>>
    ELSE LET lo == CHOOSE i \in 1..Len(ls) :
                       \A j \in 1..Len(ls) : LetterIndex(ls[i]) <= LetterIndex(ls[j])
         IN  <<ls[lo]>> \o SortLetters(SubSeq(ls, 1, lo - 1) \o SubSeq(ls, lo + 1, Len(ls)))

op_a == DipoleOperator("A", "electric")

op_b == DipoleOperator("B", "electric")

(***************************************************************************)
(* _check_omegas_and_final_state                                           *)
(***************************************************************************)
ArgList(e) ==
    IF e.head = "Add" THEN Concat([i \in 1..Len(e.args) |-> e.args[i].args])
    ELSE e.args

DenomList(e) ==
    LET al == ArgList(e)
    IN  {al[i].base : i \in {j \in 1..Len(al) : al[j].t = "Pow"}}

\* the gamma check of the function, lines 69-72
GammaCheckRaises(e, gv) ==
    /\ gv # 0
    /\ \E denom \in DenomList(e) :
          /\ GammaI(1) \notin ArgsOf(denom)
          /\ GammaI(-1) \notin ArgsOf(denom)

\* the final-state check of the function, lines 74-81
FinalStateCheckRaises(e, fs) ==
    /\ fs # <<>>
    /\ ~ \E a \in Range(ArgList(e)) : a = Bra(fs[1]) \/ a = Ket(fs[1])

\* same check with the comparison against Ket(final_state[0]) left out
CheckOmegasAndFinalStateNoKet(e, gv, fs) ==
    IF GammaCheckRaises(e, gv) THEN "ValueError_gamma"
    ELSE IF fs # <<>> /\ ~ \E a \in Range(ArgList(e)) : a = Bra(fs[1])
         THEN "ValueError_final"
    ELSE "ok"

\* same check raising only when every denominator lacks the damping term
CheckOmegasAndFinalStateAnyDamped(e, gv, fs) ==
    IF /\ gv # 0
       /\ \A denom \in DenomList(e) :
             GammaI(1) \notin ArgsOf(denom) /\ GammaI(-1) \notin ArgsOf(denom)
    THEN "ValueError_gamma"
    ELSE IF FinalStateCheckRaises(e, fs) THEN "ValueError_final"
    ELSE "ok"

CheckOmegasAndFinalState(e, gv, fs) ==
    IF GammaCheckRaises(e, gv) THEN "ValueError_gamma"
    ELSE IF FinalStateCheckRaises(e, fs) THEN "ValueError_final"
    ELSE "ok"

(***************************************************************************)
(* Solve requests.  A key of a request map is (equation kind, operator     *)
(* type, frequency, damping, [vector kind, placeholder]); before the       *)
(* numbers are inserted the frequency is a symbol w and the damping is     *)
(* g*gamma*I.  Keys of four entries carry k4 = "" and k5 = 0.              *)
(***************************************************************************)
MTM == "MTM"

S2S_MTM == "S2S_MTM"

ResponseVector == "ResponseVector"

Key(kind, op, w, g, k4, k5) ==
    [kind |-> kind, op_type |-> op, w |-> w, g |-> g, k4 |-> k4, k5 |-> k5]

\* adcc_prop_dict[op_type].op_dim
OpDim(op) == IF op = "electric_quadrupole" THEN 2 ELSE 1

RECURSIVE Pow3(_)
Pow3(d) == IF d = 0 THEN 1 ELSE 3 * Pow3(d - 1)

\* the requests build_tree may put into one entry, given the damping
\* coefficient g of the expression and the placeholders P of earlier entries
KeyPool(g, P) ==
    <<Key(MTM, "electric", "w_1", g, "", 0),
      Key(MTM, "electric", "w_2", g, "", 0),
      Key(MTM, "electric_quadrupole", "w_1", g, "", 0),
      Key(S2S_MTM, "electric", "w_1", g, "f", 0),
      Key(S2S_MTM, "electric", "w_1", g, "x", 0),
      Key("Operator", "electric", "w_1", g, "", 0)>>
    \o [i \in 1..P |-> Key(S2S_MTM, "electric", "w_1", g, ResponseVector, i)]

RECURSIVE SortedSeq(_)
SortedSeq(S) ==
    IF S = {} THEN <<>>
    ELSE LET lo == CHOOSE x \in S : \A y \in S : x <= y
         IN  <<lo>> \o SortedSeq(S \ {lo})

\* request maps of one entry: distinct keys of the pool, bound to the
\* placeholders P+1, P+2, ... up to MaxPlaceholders
Entries(g, P) ==
    LET pool == KeyPool(g, P)
        picks == {S \in SUBSET (1..Len(pool)) :
                     Cardinality(S) >= 1 /\ P + Cardinality(S) <= MaxPlaceholders}
    IN  {[j \in 1..Cardinality(S) |->
             [key |-> pool[SortedSeq(S)[j]], val |-> P + j]] : S \in picks}

\* number of placeholders of a tree
Placeholders(tree) == Len(Concat(tree))

RECURSIVE TreesFrom(_, _)
TreesFrom(g, tr) ==
    {tr} \cup UNION {TreesFrom(g, Append(tr, e)) : e \in Entries(g, Placeholders(tr))}

\* build_tree: entries in dependency order, a product request refers to a
\* placeholder of an earlier entry
Trees == UNION {TreesFrom(g, <<>>) : g \in {0, -1}}

(***************************************************************************)
(* evaluate_property_isr: insertion of the numbers into the keys           *)
(***************************************************************************)
\* k[2].subs(all_omegas): the first pair of the list that names w
SubsOmegas(w, oms) ==
    LET hits == {i \in 1..Len(oms) : oms[i][1] = w}
    IN  oms[CHOOSE i \in hits : \A j \in hits : i <= j][2]

\* line 315, {o[0]: o[1] for o in all_omegas}: a later pair of the list
\* replaces an earlier pair of the same symbol
SubsDict(oms) ==
    [w \in {oms[i][1] : i \in 1..Len(oms)} |->
        LET hits == {i \in 1..Len(oms) : oms[i][1] = w}
        IN  oms[CHOOSE i \in hits : \A j \in hits : j <= i][2]]

NewKey(k, oms, gv) ==
    [kind |-> k.kind, op_type |-> k.op_type, om |-> SubsOmegas(k.w, oms),
     gam |-> k.g * gv, k4 |-> k.k4, k5 |-> k.k5]

InsertKey(acc, nk, v) ==
    IF \E i \in 1..Len(acc) : acc[i].key = nk
    THEN LET i == CHOOSE i \in 1..Len(acc) : acc[i].key = nk
         IN  [acc EXCEPT ![i].vals = Append(@, v)]
    ELSE Append(acc, [key |-> nk, vals |-> <<v>>])

RECURSIVE Regroup(_, _, _, _)
Regroup(items, acc, oms, gv) ==
    IF items = <<>> THEN acc
    ELSE Regroup(Tail(items),
                 InsertKey(acc, NewKey(Head(items).key, oms, gv), Head(items).val),
                 oms, gv)

\* lines 218-221: a key without damping although gamma_val was given
RealKeyWithGamma(items, gv) ==
    \E i \in 1..Len(items) : items[i].key.g * gv = 0 /\ gv # 0

(***************************************************************************)
(* Inputs of a call                                                        *)
(***************************************************************************)
\* polarizability-like sum of two products whose denominators carry the
\* damping coefficients g1 and g2 (0: no damping term)
AlphaExpr(g1, g2) ==
    Add(<<Mul(<<Pow({TransitionFrequency("n"), Freq("w", -1)}
                    \cup {GammaI(g1) : x \in {y \in {1} : g1 # 0}})>>
              \o TransitionMoment("0", op_a, "n") \o TransitionMoment("n", op_b, "0")),
          Mul(<<Pow({TransitionFrequency("n"), Freq("w", 1)}
                    \cup {GammaI(g2) : x \in {y \in {1} : g2 # 0}})>>
              \o TransitionMoment("0", op_b, "n") \o TransitionMoment("n", op_a, "0"))>>)

\* single product ending in the state s, with damping coefficient g
ProductExpr(s, g) ==
    Mul(<<Pow({TransitionFrequency("n"), Freq("w", -1)}
              \cup {GammaI(g) : x \in {y \in {1} : g # 0}})>>
        \o TransitionMoment("0", op_a, "n") \o TransitionMoment("n", op_b, s))

\* product whose denominator is the lone symbol w_n
LoneDenominatorExpr ==
    Mul(<<Pow({TransitionFrequency("n")})>>
        \o TransitionMoment("0", op_a, "n") \o TransitionMoment("n", op_b, "f"))

\* sum in which only the second term refers to the final state
SecondTermFinalExpr ==
    Add(<<Mul(<<Pow({TransitionFrequency("n"), Freq("w", -1), GammaI(-1)})>>
              \o TransitionMoment("0", op_a, "n") \o TransitionMoment("n", op_b, "0")),
          Mul(<<Pow({TransitionFrequency("n"), Freq("w", 1), GammaI(1)})>>
              \o TransitionMoment("f", op_b, "n") \o TransitionMoment("n", op_a, "0"))>>)

Exprs ==
    {AlphaExpr(0, 0), AlphaExpr(-1, 1), AlphaExpr(-1, 0), AlphaExpr(0, 1),
     ProductExpr("f", 0), ProductExpr("f", -1), ProductExpr("0", -1),
     LoneDenominatorExpr, SecondTermFinalExpr}

GammaVals == {0, 1}

FinalStates == {<<>>, <<"f", 1>>}

OmegaLists ==
    {<<<<"w_1", 1>>, <<"w_2", 1>>>>,
     <<<<"w_1", 1>>, <<"w_2", 2>>>>,
     <<<<"w_1", 1>>, <<"w_1", 2>>, <<"w_2", 2>>>>}

NoArray == [batch |-> 0, rank |-> 0]

EmptyDict == <<>>

(***************************************************************************)
(* evaluate_property_isr                                                   *)
(***************************************************************************)
Raise(e) ==
    /\ pc' = "error"
    /\ err' = e

\* sos.operator_types: the types of the dipole operators of the expression
OperatorTypes(e) ==
    LET terms == IF e.head = "Add" THEN e.args ELSE <<e>>
    IN  UNION {{terms[a].args[i].op_type :
                   i \in {j \in 1..Len(terms[a].args) :
                             terms[a].args[j].t = "DipoleOperator"}} :
               a \in 1..Len(terms)}

\* lines 189-196: the list omegas with the pair of the final state appended
AllOmegas(oms, fs, energies) ==
    IF fs # <<>> THEN Append(oms, <<"w_" \o fs[1], energies[fs[2]]>>) ELSE oms

\* the state lines 180-203 leave: the check of line 205 comes next
CalledIsr ==
    /\ all_omegas = AllOmegas(omegas, final_state, excitation_energy)
    /\ adcc_prop_dict = OperatorTypes(sos_expr)

\* the state lines 694-717 leave: no list all_omegas in this evaluator
CalledFast ==
    /\ all_omegas = <<>>
    /\ adcc_prop_dict = OperatorTypes(sos_expr)

\* a check that is made after the conversion and the building of the tree
CheckOmegasAfterConversion ==
    /\ pc = "check"
    /\ \E tr \in Trees : rvecs_dict_list' = tr
    /\ LET r == CheckOmegasAndFinalState(sos_expr, gamma_val, final_state)
       IN  IF r = "ok" THEN pc' = "convert" /\ err' = err ELSE Raise(r)
    /\ UNCHANGED <<inputVars, callVars, ctorVars, asmVars, ti, rvecs_dict_mod, ki,
                   response_dict, solve_log, fastVars>>

\* line 205
CheckOmegas ==
    /\ pc = "check"
    /\ LET r == CheckOmegasAndFinalState(sos_expr, gamma_val, final_state)
       IN  IF r = "ok" THEN pc' = "convert" /\ err' = err ELSE Raise(r)
    /\ UNCHANGED <<inputVars, callVars, ctorVars, asmVars, isrVars, fastVars>>

\* lines 206-210: to_isr and build_tree, then the empty memo map
ToIsrBuildTree ==
    /\ pc = "convert"
    /\ \E tr \in Trees :
          /\ rvecs_dict_list' = tr
          /\ pc' = IF tr = <<>> THEN "assemble" ELSE "rewrite"
    /\ ti' = 1
    /\ response_dict' = EmptyDict
    /\ UNCHANGED <<err, inputVars, callVars, ctorVars, asmVars, rvecs_dict_mod, ki, solve_log, fastVars>>

\* lines 212-226
RewriteKeys ==
    /\ pc = "rewrite"
    /\ LET items == rvecs_dict_list[ti]
       IN  IF RealKeyWithGamma(items, gamma_val)
           THEN Raise("ValueError_gamma") /\ UNCHANGED <<rvecs_dict_mod, ki>>
           ELSE /\ rvecs_dict_mod' = Regroup(items, <<>>, all_omegas, gamma_val)
                /\ ki' = 1
                /\ pc' = "solve"
                /\ err' = err
    /\ UNCHANGED <<inputVars, callVars, ctorVars, asmVars, rvecs_dict_list, ti, response_dict, solve_log, fastVars>>

\* the request being solved
Cur == rvecs_dict_mod[ki]

\* binding that stores the array under the first placeholder of v only
BindFirstOnly(vals, arr) ==
    [x \in DOMAIN response_dict \cup {vals[1]} |->
        IF x = vals[1] THEN arr ELSE response_dict[x]]

\* for vv in v: response_dict[vv] = response
Bind(vals, arr) ==
    [x \in DOMAIN response_dict \cup Range(vals) |->
        IF x \in Range(vals) THEN arr ELSE response_dict[x]]

\* one batch of calls of solve_response for the request Cur
Batch(count, rhs) ==
    [key |-> Cur.key, count |-> count, rhs |-> rhs,
     omega |-> 0 - Cur.key.om,
     gamma |-> IF rhs = "real" THEN 0 ELSE 0 - Cur.key.gam]

\* next request of the entry, next entry, or the end of the loop (line 288)
NextRequest ==
    IF ki < Len(rvecs_dict_mod)
    THEN pc' = "solve" /\ ki' = ki + 1 /\ ti' = ti /\ rvecs_dict_mod' = rvecs_dict_mod
    ELSE IF ti < Len(rvecs_dict_list)
    THEN pc' = "rewrite" /\ ki' = ki /\ ti' = ti + 1 /\ rvecs_dict_mod' = rvecs_dict_mod
    ELSE pc' = "assemble" /\ ki' = ki /\ ti' = ti /\ rvecs_dict_mod' = rvecs_dict_mod

Dispatch(count, rhs, rank) ==
    /\ solve_log' = Append(solve_log, Batch(count, rhs))
    /\ response_dict' = Bind(Cur.vals, [batch |-> Len(solve_log) + 1, rank |-> rank])
    /\ NextRequest
    /\ err' = err

Abort(e) ==
    /\ Raise(e)
    /\ UNCHANGED <<ti, rvecs_dict_mod, ki, response_dict, solve_log>>

\* right-hand-side solve that never wraps the right-hand side
SolveMTMAlwaysReal ==
    /\ pc = "solve"
    /\ Cur.key.kind = MTM
    /\ Dispatch(Pow3(OpDim(Cur.key.op_type)), "real", OpDim(Cur.key.op_type))
    /\ UNCHANGED <<inputVars, callVars, ctorVars, asmVars, rvecs_dict_list, fastVars>>

\* lines 231-245
SolveMTM ==
    /\ pc = "solve"
    /\ Cur.key.kind = MTM
    /\ Dispatch(Pow3(OpDim(Cur.key.op_type)),
                IF Cur.key.gam = 0 THEN "real" ELSE "complex",
                OpDim(Cur.key.op_type))
    /\ UNCHANGED <<inputVars, callVars, ctorVars, asmVars, rvecs_dict_list, fastVars>>

\* product solve that dispatches without looking at the damping
SolveProductResponseVectorAnyDamping ==
    /\ pc = "solve"
    /\ Cur.key.kind = S2S_MTM
    /\ Cur.key.k4 = ResponseVector
    /\ IF Cur.key.k5 \notin DOMAIN response_dict THEN Abort("KeyError")
       ELSE LET rank == OpDim(Cur.key.op_type) + response_dict[Cur.key.k5].rank
            IN  Dispatch(Pow3(rank), IF Cur.key.gam = 0 THEN "real" ELSE "complex", rank)
    /\ UNCHANGED <<inputVars, callVars, ctorVars, asmVars, rvecs_dict_list, fastVars>>

\* lines 246-266
SolveProductResponseVector ==
    /\ pc = "solve"
    /\ Cur.key.kind = S2S_MTM
    /\ Cur.key.k4 = ResponseVector
    /\ IF Cur.key.k5 \notin DOMAIN response_dict THEN Abort("KeyError")
       ELSE IF Cur.key.gam = 0
       THEN LET rank == OpDim(Cur.key.op_type) + response_dict[Cur.key.k5].rank
            IN  Dispatch(Pow3(rank), "real", rank)
       ELSE Abort("NotImplementedError")
    /\ UNCHANGED <<inputVars, callVars, ctorVars, asmVars, rvecs_dict_list, fastVars>>

\* lines 267-281
SolveProductFinalState ==
    /\ pc = "solve"
    /\ Cur.key.kind = S2S_MTM
    /\ Cur.key.k4 # ResponseVector
    /\ IF final_state = <<>> THEN Abort("TypeError")
       ELSE /\ Cur.key.k4 = final_state[1]
            /\ Dispatch(Pow3(OpDim(Cur.key.op_type)),
                        IF Cur.key.gam = 0 THEN "real" ELSE "complex",
                        OpDim(Cur.key.op_type))
    /\ UNCHANGED <<inputVars, callVars, ctorVars, asmVars, rvecs_dict_list, fastVars>>

\* lines 282-286
UnknownEquation ==
    /\ pc = "solve"
    /\ \/ Cur.key.kind \notin {MTM, S2S_MTM}
       \/ /\ Cur.key.kind = S2S_MTM
          /\ Cur.key.k4 # ResponseVector
          /\ final_state # <<>>
          /\ Cur.key.k4 # final_state[1]
    /\ Abort("ValueError_unknown")
    /\ UNCHANGED <<inputVars, callVars, ctorVars, asmVars, rvecs_dict_list, fastVars>>

InitInputs ==
    /\ pc = "check"
    /\ err = "none"
    /\ omegas \in OmegaLists
    /\ gamma_val \in GammaVals
    /\ final_state \in FinalStates
    /\ summation_indices = <<"n">>
    /\ excitation_energy = <<1, 2>>
    /\ excluded_cases = <<>>
    /\ perm_pairs = <<>>
    /\ CalledIsr
    /\ IsrIdle
    /\ FastIdle
    /\ CtorIdle
    /\ AsmIdle

\* a call of evaluate_property_isr on the damped product ending in |f>
InitIsr ==
    /\ sos_expr = ProductExpr("f", -1)
    /\ InitInputs

NextIsr ==
    \/ CheckOmegas
    \/ ToIsrBuildTree
    \/ RewriteKeys
    \/ SolveMTM
    \/ SolveProductResponseVector
    \/ SolveProductFinalState
    \/ UnknownEquation

SpecIsr == InitIsr /\ [][NextIsr]_vars

\* the calls up to the conversion, over all expressions
InitCheck ==
    /\ sos_expr \in Exprs
    /\ InitInputs

NextCheck ==
    \/ CheckOmegas
    \/ ToIsrBuildTree

SpecCheck == InitCheck /\ [][NextCheck]_vars

(***************************************************************************)
(* evaluate_property_sos_fast                                              *)
(***************************************************************************)
DipoleMoment(comp, from_state, to_state, op_type) ==
    [t |-> "DipoleMoment", comp |-> comp, from_state |-> from_state,
     to_state |-> to_state, op_type |-> op_type]

\* a.symmetry of a dipole moment: 1 Hermitian, 2 anti-Hermitian
Symmetry(op_type) ==
    IF op_type = "electric" THEN 1 ELSE IF op_type = "magnetic" THEN 2 ELSE 0

\* replace_bra_op_ket on the factors of a product of Bra*op*Ket sequences
\* a replacement that takes from_state from the Bra and to_state from the Ket
RECURSIVE ReplaceBraOpKetSwapped(_)
ReplaceBraOpKetSwapped(args) ==
    IF args = <<>> THEN <<>>
    ELSE IF /\ Len(args) >= 3
            /\ args[1].t = "Bra"
            /\ args[2].t = "DipoleOperator"
            /\ args[3].t = "Ket"
    THEN <<DipoleMoment(args[2].comp, args[1].label, args[3].label, args[2].op_type)>>
         \o ReplaceBraOpKetSwapped(SubSeq(args, 4, Len(args)))
    ELSE <<Head(args)>> \o ReplaceBraOpKetSwapped(Tail(args))

RECURSIVE ReplaceBraOpKet(_)
ReplaceBraOpKet(args) ==
    IF args = <<>> THEN <<>>
    ELSE IF /\ Len(args) >= 3
            /\ args[1].t = "Bra"
            /\ args[2].t = "DipoleOperator"
            /\ args[3].t = "Ket"
    THEN <<DipoleMoment(args[2].comp, args[3].label, args[1].label, args[2].op_type)>>
         \o ReplaceBraOpKet(SubSeq(args, 4, Len(args)))
    ELSE <<Head(args)>> \o ReplaceBraOpKet(Tail(args))

\* lines 734-737
TermList(e) ==
    IF e.head = "Add"
    THEN [i \in 1..Len(e.args) |-> ReplaceBraOpKet(e.args[i].args)]
    ELSE <<ReplaceBraOpKet(e.args)>>

\* subs_dict of line 703: the last pair of the list that names w
InOmegas(w, oms) == \E i \in 1..Len(oms) : oms[i][1] = w

OmegaDict(w, oms) ==
    LET hits == {i \in 1..Len(oms) : oms[i][1] = w}
    IN  oms[CHOOSE i \in hits : \A j \in hits : i >= j][2]

\* sum of the values val[x] over the elements x of S
RECURSIVE SumOver(_, _)
SumOver(S, val) ==
    IF S = {} THEN 0
    ELSE LET x == CHOOSE y \in S : TRUE
         IN  val[x] + SumOver(S \ {x}, val)

Entry(state_str, comp_str, array) ==
    [state_str |-> state_str, comp_str |-> comp_str, array |-> array]

\* lines 744-776: the einsum entry of a dipole moment, or the error raised
DipoleMomentEntry(a, fs, sum_ind) ==
    IF a.from_state = "0" /\ a.to_state = "0"
    THEN [err |-> "none", entry |-> Entry(<<>>, <<a.comp>>, "gs_dip_moment")]
    ELSE IF a.from_state = "0"
    THEN IF a.to_state \in Range(sum_ind)
         THEN [err |-> "none", entry |-> Entry(<<a.to_state>>, <<a.comp>>, "tdms")]
         ELSE IF fs = <<>> THEN [err |-> "TypeError"]
         ELSE [err |-> "none", entry |-> Entry(<<>>, <<a.comp>>, "tdms_f")]
    ELSE IF a.to_state = "0"
    THEN IF Symmetry(a.op_type) \notin {1, 2} THEN [err |-> "NotImplementedError"]
         ELSE IF a.from_state \in Range(sum_ind)
         THEN [err |-> "none", entry |-> Entry(<<a.from_state>>, <<a.comp>>, "tdms")]
         ELSE IF fs = <<>> THEN [err |-> "TypeError"]
         ELSE [err |-> "none", entry |-> Entry(<<>>, <<a.comp>>, "tdms_f")]
    ELSE IF a.from_state \in Range(sum_ind) /\ a.to_state \in Range(sum_ind)
    THEN [err |-> "none",
          entry |-> Entry(<<a.from_state, a.to_state>>, <<a.comp>>, "s2s_tdms")]
    ELSE IF a.from_state \in Range(sum_ind)
    THEN IF fs = <<>> THEN [err |-> "TypeError"]
         ELSE IF a.to_state = fs[1]
         THEN [err |-> "none", entry |-> Entry(<<a.from_state>>, <<a.comp>>, "s2s_tdms_f")]
         ELSE [err |-> "ValueError"]
    ELSE IF a.to_state \in Range(sum_ind)
    THEN IF fs = <<>> THEN [err |-> "TypeError"]
         ELSE IF a.from_state = fs[1]
         THEN [err |-> "none", entry |-> Entry(<<a.to_state>>, <<a.comp>>, "s2s_tdms_f")]
         ELSE [err |-> "ValueError"]
    ELSE [err |-> "ValueError"]

\* summands of a denominator that stay symbolic after line 779
Unresolved(b, oms, fs, sum_ind) ==
    {x \in b : \/ x.k = "freq" /\ ~InOmegas(x.s, oms)
               \/ /\ x.k = "tf"
                  /\ x.s \notin Range(sum_ind)
                  /\ (fs = <<>> \/ x.s # fs[1])
               \/ x.k = "tf" /\ x.s \in Range(sum_ind) /\ x.c # 1}

\* transition frequencies of summation indices in a denominator
IndexAtoms(b, sum_ind) == {x \in b : x.k = "tf" /\ x.s \in Range(sum_ind)}

\* real part of the numbers of a denominator after line 779
RealShift(b, oms, fs, energies) ==
    LET val == [x \in b |->
            IF x.k = "freq" /\ InOmegas(x.s, oms) THEN x.c * OmegaDict(x.s, oms)
            ELSE IF x.k = "tf" /\ fs # <<>> /\ x.s = fs[1] THEN x.c * energies[fs[2]]
            ELSE 0]
    IN  SumOver(b, val)

\* imaginary part of the numbers of a denominator after line 779
ImagShift(b, gv) ==
    LET val == [x \in b |-> IF x.k = "gammaI" THEN x.c * gv ELSE 0]
    IN  SumOver(b, val)

\* states at which 1/(excitation_energy + shift) is infinite
InfStates(b, oms, fs, gv, energies) ==
    IF ImagShift(b, gv) # 0 THEN {}
    ELSE {j \in 1..Len(energies) : energies[j] + RealShift(b, oms, fs, energies) = 0}

\* lines 778-810: the einsum entry of a denominator, the divergence it
\* records, or the error raised
PowEntry(b, oms, fs, gv, energies, sum_ind) ==
    LET idx == IndexAtoms(b, sum_ind)
        inf == InfStates(b, oms, fs, gv, energies)
    IN  IF /\ idx = {}
           /\ Unresolved(b, oms, fs, sum_ind) = {}
           /\ RealShift(b, oms, fs, energies) = 0
           /\ ImagShift(b, gv) = 0
        THEN [err |-> "ZeroDivisionError"]
        ELSE IF Unresolved(b, oms, fs, sum_ind) # {} THEN [err |-> "ValueError"]
        ELSE IF idx = {}
        THEN [err |-> "none", entry |-> Entry(<<>>, <<>>, "scalar"), div |-> <<>>]
        ELSE LET index == (CHOOSE x \in idx : TRUE).s
             IN  IF inf = {}
                 THEN [err |-> "none", entry |-> Entry(<<index>>, <<>>, "denominator"),
                       div |-> <<>>]
                 ELSE IF Cardinality(inf) = 1
                 THEN [err |-> "none", entry |-> Entry(<<index>>, <<>>, "denominator"),
                       div |-> <<[index |-> index, state |-> CHOOSE j \in inf : TRUE]>>]
                 ELSE [err |-> "AssertionError"]

\* lines 740-819 from the factor number i on; acc holds einsum_list,
\* divergences and factor collected so far
RECURSIVE AnalyseFrom(_, _, _, _, _, _, _, _)
AnalyseFrom(args, i, acc, oms, fs, gv, energies, sum_ind) ==
    IF i > Len(args) THEN acc
    ELSE LET a == args[i]
         IN  IF a.t = "DipoleMoment"
             THEN LET r == DipoleMomentEntry(a, fs, sum_ind)
                  IN  IF r.err # "none" THEN [acc EXCEPT !.err = r.err]
                      ELSE AnalyseFrom(args, i + 1,
                               [acc EXCEPT !.einsum_list = Append(@, r.entry)],
                               oms, fs, gv, energies, sum_ind)
             ELSE IF a.t = "Pow"
             THEN LET r == PowEntry(a.base, oms, fs, gv, energies, sum_ind)
                  IN  IF r.err # "none" THEN [acc EXCEPT !.err = r.err]
                      ELSE AnalyseFrom(args, i + 1,
                               [acc EXCEPT !.einsum_list = Append(@, r.entry),
                                           !.divergences = @ \o r.div],
                               oms, fs, gv, energies, sum_ind)
             ELSE IF a.t = "LeviCivita"
             THEN AnalyseFrom(args, i + 1,
                      [acc EXCEPT !.einsum_list =
                           Append(@, Entry(<<>>, <<"A", "B", "C">>, "lc_tensor"))],
                      oms, fs, gv, energies, sum_ind)
             ELSE IF a.t = "Number"
             THEN AnalyseFrom(args, i + 1, [acc EXCEPT !.factor = @ * a.v],
                      oms, fs, gv, energies, sum_ind)
             ELSE [acc EXCEPT !.err = "TypeError"]

Analyse(args, oms, fs, gv, energies, sum_ind) ==
    AnalyseFrom(args, 1,
                [err |-> "none", einsum_list |-> <<>>, divergences |-> <<>>, factor |-> 1],
                oms, fs, gv, energies, sum_ind)

\* lines 833-835: the excluded cases that the term's arrays are cut by
CasesOfTerm(el, ec) ==
    {i \in 1..Len(ec) :
        /\ ec[i].state # "0"
        /\ \E j \in 1..Len(el) : ec[i].index \in Range(el[j].state_str)}

\* lines 843-850: divergences_copied after the removal of the cases rds
RECURSIVE RemoveFirst(_, _)
RemoveFirst(seq, x) ==
    IF seq = <<>> THEN <<>>
    ELSE IF Head(seq) = x THEN Tail(seq)
    ELSE <<Head(seq)>> \o RemoveFirst(Tail(seq), x)

RECURSIVE RemoveAll(_, _)
RemoveAll(seq, rds) ==
    IF rds = {} THEN seq
    ELSE LET rd == CHOOSE x \in rds : TRUE
         IN  RemoveAll(RemoveFirst(seq, rd), rds \ {rd})

(***************************************************************************)
(* The result tensor                                                       *)
(***************************************************************************)
\* a constant element type
AlwaysFloat(gv) == "float"

\* lines 292-294, 557-559, 729-731
DType(gv) == IF gv # 0 THEN "complex" ELSE "float"

\* the component tuples of a tensor of order n
Tuples(n) == [1..n -> 0..2]

NonDecreasing(c) == \A i \in 1..(Len(c) - 1) : c[i] <= c[i + 1]

\* position of a tuple in the lexicographic order
RECURSIVE Code(_)
Code(c) ==
    IF Len(c) = 0 THEN 0 ELSE 3 * Code(SubSeq(c, 1, Len(c) - 1)) + c[Len(c)]

RECURSIVE InLexOrder(_)
InLexOrder(S) ==
    IF S = {} THEN <<>>
    ELSE LET lo == CHOOSE x \in S : \A y \in S : Code(x) <= Code(y)
         IN  <<lo>> \o InLexOrder(S \ {lo})

\* combinations_with_replacement([0, 1, 2], n) and product([0, 1, 2], repeat=n)
ComponentLists ==
    [sym \in BOOLEAN, n \in 0..MaxOrder |->
        InLexOrder(IF sym THEN {c \in Tuples(n) : NonDecreasing(c)} ELSE Tuples(n))]

\* lines 303-306, 561-564
Components(sym, n) == ComponentLists[sym, n]

\* p is among permutations(c)
IsPermutation(p, c) ==
    \A v \in 0..2 :
        Cardinality({i \in 1..Len(p) : p[i] = v}) = Cardinality({i \in 1..Len(c) : c[i] = v})

\* np.zeros((3,)*order)
Zeros(n) == [c \in Tuples(n) |-> 0]

\* a loop over the permutations that copies nothing
CopyToNoPermutation(rt, c) == rt

\* lines 446-449, 644-647: res_tens[p] = res_tens[c] for p in permutations(c)
CopyToPermutations(rt, c) ==
    [p \in DOMAIN rt |-> IF IsPermutation(p, c) THEN rt[c] ELSE rt[p]]

\* the number a term evaluates to for the state i of the summation index
\* (0 in evaluate_property_isr) and the component tuple c
Value(t, i, c) == t + i + Code(c) + 1

\* sum of Value(t, i, c) over the terms 1..n
RECURSIVE SumOfTerms(_, _, _)
SumOfTerms(n, i, c) ==
    IF n = 0 THEN 0 ELSE SumOfTerms(n - 1, i, c) + Value(n, i, c)

\* lines 694-737: the consistency check, then the list of terms
FastBegin ==
    /\ pc = "fast_check"
    /\ LET r == CheckOmegasAndFinalState(sos_expr, gamma_val, final_state)
       IN  IF r = "ok"
           THEN /\ term_list' = TermList(sos_expr)
                /\ tix' = 1
                /\ dtype' = DType(gamma_val)
                /\ res_tens' = Zeros(order)
                /\ pc' = "analyse"
                /\ err' = err
           ELSE Raise(r) /\ UNCHANGED <<term_list, tix, dtype, res_tens>>
    /\ UNCHANGED <<inputVars, callVars, ctorVars, loopVars, isrVars, einsum_list, divergences,
                   removed_divergences, contracted>>

\* lines 739-822
AnalyseTerm ==
    /\ pc = "analyse"
    /\ LET r == Analyse(term_list[tix], omegas, final_state, gamma_val,
                        excitation_energy, summation_indices)
       IN  IF r.err = "none"
           THEN /\ einsum_list' = r.einsum_list
                /\ divergences' = r.divergences
                /\ removed_divergences' = {}
                /\ pc' = "remove"
                /\ err' = err
           ELSE /\ Raise(r.err)
                /\ UNCHANGED <<einsum_list, divergences, removed_divergences>>
    /\ UNCHANGED <<inputVars, callVars, ctorVars, asmVars, isrVars, term_list, tix, contracted>>

\* lines 823-842
RemoveExcludedCases ==
    /\ pc = "remove"
    /\ LET cases == CasesOfTerm(einsum_list, excluded_cases)
       IN  IF cases # {} /\ final_state = <<>>
           THEN Raise("TypeError") /\ UNCHANGED removed_divergences
           ELSE IF \E i \in cases : excluded_cases[i].state # final_state[1]
           THEN Raise("AssertionError") /\ UNCHANGED removed_divergences
           ELSE /\ removed_divergences' =
                      {[index |-> excluded_cases[i].index, state |-> final_state[2]] :
                          i \in cases}
                /\ pc' = "reconcile"
                /\ err' = err
    /\ UNCHANGED <<inputVars, callVars, ctorVars, asmVars, isrVars, term_list, tix, einsum_list, divergences,
                   contracted>>

\* reconciliation that lets a term with an unremoved divergence pass
CheckDivergencesNoZeroDivision ==
    /\ pc = "reconcile"
    /\ IF \E rd \in removed_divergences : rd \notin Range(divergences)
       THEN Raise("ValueError_excluded")
       ELSE pc' = "contract" /\ err' = err
    /\ UNCHANGED <<inputVars, callVars, ctorVars, asmVars, isrVars, fastVars>>

\* reconciliation that accepts removed cases that caused no divergence
CheckDivergencesNoValueError ==
    /\ pc = "reconcile"
    /\ IF /\ divergences # <<>>
          /\ RemoveAll(divergences, removed_divergences) # <<>>
       THEN Raise("ZeroDivisionError_remaining")
       ELSE pc' = "contract" /\ err' = err
    /\ UNCHANGED <<inputVars, callVars, ctorVars, asmVars, isrVars, fastVars>>

\* lines 843-855
CheckDivergences ==
    /\ pc = "reconcile"
    /\ IF \E rd \in removed_divergences : rd \notin Range(divergences)
       THEN Raise("ValueError_excluded")
       ELSE IF /\ divergences # <<>>
               /\ RemoveAll(divergences, removed_divergences) # <<>>
       THEN Raise("ZeroDivisionError_remaining")
       ELSE pc' = "contract" /\ err' = err
    /\ UNCHANGED <<inputVars, callVars, ctorVars, asmVars, isrVars, fastVars>>

\* the component labels of the entries, in the order of the entries
EinsumRightUnsorted(el) ==
    Concat([j \in 1..Len(el) |-> el[j].comp_str])

\* list(set(s)): the letters of s, each once, here in the order of their
\* first occurrence
RECURSIVE ListOfSet(_)
ListOfSet(s) ==
    IF s = <<>> THEN <<>>
    ELSE LET front == ListOfSet(SubSeq(s, 1, Len(s) - 1))
         IN  IF s[Len(s)] \in Range(front) THEN front ELSE Append(front, s[Len(s)])

\* lines 826, 857-859: list(set(einsum_right)), sort(), join
EinsumRight(el) ==
    SortLetters(ListOfSet(Concat([j \in 1..Len(el) |-> el[j].comp_str])))

\* lines 856-864
ContractTerm ==
    /\ pc = "contract"
    /\ contracted' = Append(contracted,
           [term |-> tix,
            left |-> [j \in 1..Len(einsum_list) |->
                         einsum_list[j].state_str \o einsum_list[j].comp_str],
            right |-> EinsumRight(einsum_list),
            factor |-> Analyse(term_list[tix], omegas, final_state, gamma_val,
                               excitation_energy, summation_indices).factor])
    /\ res_tens' = [c \in DOMAIN res_tens |->
           res_tens[c] + Analyse(term_list[tix], omegas, final_state, gamma_val,
                                 excitation_energy, summation_indices).factor
                         * Value(tix, 0, c)]
    /\ IF tix < Len(term_list)
       THEN tix' = tix + 1 /\ pc' = "analyse"
       ELSE tix' = tix /\ pc' = "done"
    /\ UNCHANGED <<err, inputVars, callVars, ctorVars, loopVars, dtype, isrVars, term_list,
                   einsum_list, divergences, removed_divergences>>

\* <f|A|n><n|B|f> over the denominators given
FinalToFinalExpr(denoms) ==
    Mul([i \in 1..Len(denoms) |-> Pow(denoms[i])]
        \o TransitionMoment("f", op_a, "n") \o TransitionMoment("n", op_b, "f"))

\* <f|A|n><n|B|0> / (w_n - w)
FinalFromGroundExpr ==
    Mul(<<Pow({TransitionFrequency("n"), Freq("w", -1)})>>
        \o TransitionMoment("f", op_a, "n") \o TransitionMoment("n", op_b, "0"))

Number(v) == [t |-> "Number", v |-> v]

\* 2 * <0|B|n><n|A|0> / (w_n + w)
PrefactorExpr ==
    Mul(<<Number(2), Pow({TransitionFrequency("n"), Freq("w", 1)})>>
        \o TransitionMoment("0", op_b, "n") \o TransitionMoment("n", op_a, "0"))

FastExprs ==
    {AlphaExpr(0, 0), AlphaExpr(-1, 1), LoneDenominatorExpr, FinalFromGroundExpr,
     PrefactorExpr,
     FinalToFinalExpr(<<{TransitionFrequency("n"), [k |-> "tf", s |-> "f", c |-> -1]}>>),
     FinalToFinalExpr(<<{TransitionFrequency("n"), [k |-> "tf", s |-> "f", c |-> -1]},
                        {TransitionFrequency("n"), Freq("w", -1)}>>),
     FinalToFinalExpr(<<{TransitionFrequency("n"), [k |-> "tf", s |-> "f", c |-> -1]},
                        {Freq("w", 1), [k |-> "tf", s |-> "f", c |-> -1]}>>)}

\* nondecreasing sequences of NumStates excitation energies
EnergyLists ==
    {e \in [1..NumStates -> 1..MaxEnergy] : \A j \in 1..(NumStates - 1) : e[j] <= e[j + 1]}

\* "0" is the ground state O, "f" the final-state symbol, "1" a state number
ExcludedCaseLists ==
    UNION {[1..k -> [index : {"n"}, state : {"0", "f", "1"}]] : k \in 0..MaxExcluded}

(***************************************************************************)
(* SumOverStates.__init__                                                  *)
(***************************************************************************)
op_c == DipoleOperator("C", "electric")

\* the additive terms of the expression, each the sequence of its factors
ArgLists(e) ==
    IF e.head = "Add" THEN [i \in 1..Len(e.args) |-> e.args[i].args] ELSE <<e.args>>

\* the dipole operators among the factors, in order
RECURSIVE OperatorsOf(_)
OperatorsOf(args) ==
    IF args = <<>> THEN <<>>
    ELSE IF Head(args).t = "DipoleOperator"
    THEN <<Head(args)>> \o OperatorsOf(Tail(args))
    ELSE OperatorsOf(Tail(args))

\* a collection that appends every occurrence of an operator
KeepAll(ops) == ops

\* lines 127-129: an operator is appended unless it is in the list already
RECURSIVE Distinct(_)
Distinct(ops) ==
    IF ops = <<>> THEN <<>>
    ELSE LET front == Distinct(SubSeq(ops, 1, Len(ops) - 1))
             last == ops[Len(ops)]
         IN  IF last \in Range(front) THEN front ELSE Append(front, last)

ContainsDipoleMoment(e) ==
    \E i \in 1..Len(ArgLists(e)) : \E j \in 1..Len(ArgLists(e)[i]) :
        ArgLists(e)[i][j].t = "DipoleMoment"

\* the test of lines 143 and 161 accepting an index that is bound on one side
IndexUnboundOnBothSides(index, args) ==
    Bra(index) \notin Range(args) /\ Ket(index) \notin Range(args)

\* lines 143, 161
IndexUnbound(index, args) ==
    Bra(index) \notin Range(args) \/ Ket(index) \notin Range(args)

\* a type test that lets every expression through
AnyTypeAccepted(e) == TRUE

\* lines 124, 145, 163: isinstance(expr, Add) or isinstance(expr, Mul)
IsAddOrMul(e) == e.head \in {"Add", "Mul"}

\* lines 106-140, 145-159, 163-164
CtorCollect ==
    /\ pc = "ctor"
    /\ IF ~IsAddOrMul(sos_expr)
       THEN Raise("TypeError") /\ UNCHANGED <<operators, components>>
       ELSE IF ContainsDipoleMoment(sos_expr)
       THEN Raise("TypeError_DipoleMoment") /\ UNCHANGED <<operators, components>>
       ELSE LET all == OperatorsOf(Concat(ArgLists(sos_expr)))
                ops == IF sos_expr.head = "Add" THEN Distinct(all) ELSE all
            IN  /\ operators' = ops
                /\ components' = SortLetters([i \in 1..Len(ops) |-> ops[i].comp])
                /\ pc' = "ctor_indices"
                /\ err' = err
    /\ UNCHANGED <<inputVars, callVars, isrVars, fastVars, asmVars, order, expr>>

\* lines 141-144, 160-162
CtorCheckIndices ==
    /\ pc = "ctor_indices"
    /\ IF \E i \in 1..Len(summation_indices) : \E a \in 1..Len(ArgLists(sos_expr)) :
             IndexUnbound(summation_indices[i], ArgLists(sos_expr)[a])
       THEN Raise("ValueError_indices")
       ELSE pc' = "ctor_order" /\ err' = err
    /\ UNCHANGED <<inputVars, callVars, isrVars, fastVars, asmVars, ctorVars>>

\* lines 166-171
CtorCheckOrder ==
    /\ pc = "ctor_order"
    /\ order' = Len(components)
    /\ IF components # SubSeq(ABC, 1, Len(components))
       THEN Raise("ValueError_components")
       ELSE pc' = "ctor_finish" /\ err' = err
    /\ UNCHANGED <<inputVars, callVars, isrVars, fastVars, asmVars, operators, components, expr>>

(***************************************************************************)
(* _build_sos_via_permutation                                              *)
(***************************************************************************)
Pair(op, freq) == [op |-> op, freq |-> freq]

Injective(f) == \A i, j \in DOMAIN f : f[i] = f[j] => i = j

LexLess(p, q) ==
    \E i \in DOMAIN p : p[i] < q[i] /\ \A j \in 1..(i - 1) : p[j] = q[j]

\* line 61, itertools.permutations: the orders of k positions, the identity
\* first
permutations(k) ==
    LET all == {p \in [1..k -> 1..k] : Injective(p)}
    IN  [i \in 1..Cardinality(all) |->
            CHOOSE p \in all : Cardinality({q \in all : LexLess(q, p)}) = i - 1]

\* lines 65-70: the replacements of one permutation, operators and
\* frequencies in the order of the pairs; subs drops a replacement of
\* something by itself
OpSubs(pairs, p) ==
    SelectSeq([j \in 1..Len(pairs) |-> [old |-> pairs[j].op, new |-> pairs[p[j]].op]],
              LAMBDA r : r.old # r.new)

FreqSubs(pairs, p) ==
    SelectSeq([j \in 1..Len(pairs) |-> [old |-> pairs[j].freq, new |-> pairs[p[j]].freq]],
              LAMBDA r : r.old # r.new)

\* a replaced symbol is found in a summand of either sign, a replaced
\* negative symbol in a summand that is this negative symbol
FreqMatches(old, a) ==
    /\ a.k = "freq"
    /\ a.s = old.s
    /\ old.c = 1 \/ a.c = -1

\* subs(..., simultaneous=True) on a summand of a denominator: the first
\* replacement that finds its symbol is carried out
SubsAtom(a, fs) ==
    LET hits == {i \in 1..Len(fs) : FreqMatches(fs[i].old, a)}
    IN  IF hits = {} THEN a
        ELSE LET r == fs[CHOOSE i \in hits : \A j \in hits : i <= j]
             IN  IF r.old.c = 1 THEN Freq(r.new.s, a.c * r.new.c) ELSE r.new

\* subs(..., simultaneous=True) on a factor
SubsFactor(x, os, fs) ==
    IF x.t = "DipoleOperator"
    THEN LET hits == {i \in 1..Len(os) : os[i].old = x}
         IN  IF hits = {} THEN x
             ELSE os[CHOOSE i \in hits : \A j \in hits : i <= j].new
    ELSE IF x.t = "Pow"
    THEN Pow({SubsAtom(a, fs) : a \in x.base})
    ELSE x

\* line 70
SubsTerm(args, pairs, p) ==
    [i \in 1..Len(args) |-> SubsFactor(args[i], OpSubs(pairs, p), FreqSubs(pairs, p))]

\* lines 54-59: zip pairs the operators of the term with the given pairs
OrderingCheckRaises(term, pairs) ==
    LET ops == OperatorsOf(term.args)
    IN  \E j \in 1..Len(ops) : j <= Len(pairs) /\ ops[j] # pairs[j].op

\* lines 60-71: the term, then one term for every further permutation
ExpandedSum(term, pairs) ==
    LET perms == permutations(Len(pairs))
    IN  IF Len(perms) = 1 THEN term
        ELSE Add([i \in 1..Len(perms) |-> Mul(SubsTerm(term.args, pairs, perms[i]))])

\* the additive terms of an expression
TermsOf(e) == IF e.head = "Add" THEN e.args ELSE <<e>>

\* an expansion that takes a sum as well and permutes each of its terms
BuildSosOfAnyExpression(term, pairs) ==
    IF term.head = "Mul" /\ OrderingCheckRaises(term, pairs)
    THEN [err |-> "ValueError_order", expr |-> NoExpr]
    ELSE IF term.head = "Mul"
    THEN [err |-> "none", expr |-> ExpandedSum(term, pairs)]
    ELSE [err |-> "none",
          expr |-> Add(Concat([a \in 1..Len(term.args) |->
                          TermsOf(ExpandedSum(term.args[a], pairs))]))]

\* lines 28-71
BuildSosViaPermutation(term, pairs) ==
    IF term.head # "Mul"
    THEN [err |-> "AssertionError", expr |-> NoExpr]
    ELSE IF OrderingCheckRaises(term, pairs)
    THEN [err |-> "ValueError_order", expr |-> NoExpr]
    ELSE [err |-> "none", expr |-> ExpandedSum(term, pairs)]

\* lines 173-180
CtorFinish ==
    /\ pc = "ctor_finish"
    /\ IF perm_pairs # <<>>
       THEN LET r == BuildSosViaPermutation(sos_expr, perm_pairs)
            IN  IF r.err # "none"
                THEN Raise(r.err) /\ expr' = expr
                ELSE pc' = "constructed" /\ err' = err /\ expr' = r.expr
       ELSE pc' = "constructed" /\ err' = err /\ expr' = sos_expr
    /\ UNCHANGED <<inputVars, callVars, isrVars, fastVars, asmVars, operators, components, order>>

\* a caller passes the expression of a SumOverStates object to a new one,
\* with the same indices and pairs
Reconstruct ==
    /\ pc = "constructed"
    /\ pc' = "ctor"
    /\ sos_expr' = expr
    /\ operators' = <<>>
    /\ components' = <<>>
    /\ order' = 0
    /\ expr' = NoExpr
    /\ UNCHANGED <<err, omegas, gamma_val, final_state, summation_indices,
                   excitation_energy, excluded_cases, perm_pairs, callVars,
                   isrVars, fastVars, asmVars>>

\* terms a caller may enter: bound indices, components that skip a letter,
\* no index, an index bound on one side only, a DipoleMoment among the factors
CtorTerms ==
    {<<Pow({TransitionFrequency("n")})>>
        \o TransitionMoment("0", op_a, "n") \o TransitionMoment("n", op_c, "0"),
     <<Pow({TransitionFrequency("n")})>>
        \o TransitionMoment("0", op_a, "n") \o TransitionMoment("n", op_a, "0")} \cup
    {<<Pow({TransitionFrequency("n"), Freq("w", -1)})>>
        \o TransitionMoment("0", op_a, "n") \o TransitionMoment("n", op_b, "0"),
     <<Pow({TransitionFrequency("n"), Freq("w", 1)})>>
        \o TransitionMoment("0", op_b, "n") \o TransitionMoment("n", op_a, "0"),
     <<Pow({TransitionFrequency("n"), Freq("w_o", -1)}),
       Pow({TransitionFrequency("m"), Freq("w_2", -1)})>>
        \o TransitionMoment("0", op_a, "n") \o TransitionMoment("n", op_b, "m")
        \o TransitionMoment("m", op_c, "0"),
     <<Pow({TransitionFrequency("n"), Freq("w_2", 1)}),
       Pow({TransitionFrequency("m"), Freq("w_o", 1)})>>
        \o TransitionMoment("0", op_c, "n") \o TransitionMoment("n", op_b, "m")
        \o TransitionMoment("m", op_a, "0"),
     TransitionMoment("0", op_a, "0") \o TransitionMoment("0", op_b, "0"),
     TransitionMoment("n", op_a, "0") \o TransitionMoment("0", op_b, "0"),
     TransitionMoment("0", op_a, "n") \o TransitionMoment("0", op_b, "0"),
     <<DipoleMoment("A", "0", "n", "electric")>> \o TransitionMoment("n", op_b, "0")}

\* a symbol standing alone: an expression with no args
LoneSymbol == [head |-> "Symbol", args |-> <<>>]

RECURSIVE SeqOf(_)
SeqOf(S) ==
    IF S = {} THEN <<>>
    ELSE LET x == CHOOSE y \in S : TRUE IN <<x>> \o SeqOf(S \ {x})

CtorExprs ==
    {Mul(t) : t \in CtorTerms}
    \cup {Add(SeqOf({Mul(t) : t \in S})) :
            S \in {T \in SUBSET CtorTerms : Cardinality(T) \in 2..MaxAddTerms}}
    \cup {Add(<<Mul(t), LoneSymbol>>) : t \in CtorTerms}
    \cup {LoneSymbol,
          [head |-> "DipoleOperator", args |-> <<>>],
          [head |-> "Pow", args |-> <<>>]}

\* perm_pairs a caller may give: none, the pairs of a term with two or three
\* operators in its order and in another, and one pair
PermPairLists ==
    {<<>>,
     <<Pair(op_a, Freq("w", -1)), Pair(op_b, Freq("w", 1))>>,
     <<Pair(op_b, Freq("w", 1)), Pair(op_a, Freq("w", -1))>>,
     <<Pair(op_a, Freq("w", -1))>>,
     <<Pair(op_b, Freq("w", 1))>>,
     <<Pair(op_a, Freq("w_o", -1)), Pair(op_b, Freq("w_1", 1)), Pair(op_c, Freq("w_2", 1))>>,
     <<Pair(op_c, Freq("w_2", 1)), Pair(op_b, Freq("w_1", 1)), Pair(op_a, Freq("w_o", -1))>>,
     <<Pair(op_b, Freq("w_1", 1)), Pair(op_c, Freq("w_2", 1))>>}

InitCtor ==
    /\ pc = "ctor"
    /\ err = "none"
    /\ sos_expr \in CtorExprs
    /\ summation_indices \in {<<>>, <<"n">>, <<"m">>, <<"n", "m">>}
    /\ omegas = <<>>
    /\ gamma_val = 0
    /\ final_state = <<>>
    /\ excitation_energy = <<>>
    /\ excluded_cases = <<>>
    /\ perm_pairs \in PermPairLists
    /\ CallIdle
    /\ IsrIdle
    /\ FastIdle
    /\ CtorIdle
    /\ AsmIdle

NextCtor ==
    \/ CtorCollect
    \/ CtorCheckIndices
    \/ CtorCheckOrder
    \/ CtorFinish
    \/ Reconstruct

SpecCtor == InitCtor /\ [][NextCtor]_vars

(***************************************************************************)
(* The call of the constructor.  The parameters after the bare * of line   *)
(* 79 are keyword-only; a call that passes a keyword outside of them is    *)
(* refused with TypeError before the body runs.                            *)
(***************************************************************************)
\* line 79: def __init__(self, expr, summation_indices, *, ...)
CtorKeywords == {"correlation_btw_freq", "perm_pairs", "excluded_states"}

\* evaluate_property.py lines 198-200 (and 520-522, 712-714): the keywords
\* of the evaluators' call, passed whether or not excluded_cases is None
EvaluatorKeywords == {"correlation_btw_freq", "perm_pairs", "excluded_cases"}

\* sum_over_states.py line 253: SumOverStates(alpha_sos_expr, [n], excluded_states=O)
DirectKeywords == {"excluded_states"}

\* the binding of the arguments of a call to the parameters of line 79
BindArguments(keywords) ==
    IF keywords \subseteq CtorKeywords
    THEN pc' = "ctor" /\ err' = err
    ELSE Raise("TypeError_keyword")

\* evaluate_property.py lines 198-200
EvaluatorCallsCtor ==
    /\ pc = "sos_call_evaluator"
    /\ BindArguments(EvaluatorKeywords)
    /\ UNCHANGED <<inputVars, callVars, isrVars, fastVars, ctorVars, asmVars>>

\* sum_over_states.py line 253
DirectCallOfCtor ==
    /\ pc = "sos_call_direct"
    /\ BindArguments(DirectKeywords)
    /\ UNCHANGED <<inputVars, callVars, isrVars, fastVars, ctorVars, asmVars>>

InitBind ==
    /\ pc \in {"sos_call_evaluator", "sos_call_direct"}
    /\ err = "none"
    /\ sos_expr \in CtorExprs
    /\ summation_indices \in {<<>>, <<"n">>, <<"m">>, <<"n", "m">>}
    /\ omegas = <<>>
    /\ gamma_val = 0
    /\ final_state = <<>>
    /\ excitation_energy = <<>>
    /\ excluded_cases \in {<<>>, <<[index |-> "n", state |-> "0"]>>}
    /\ pc = "sos_call_direct" => excluded_cases = <<>>
    /\ perm_pairs \in PermPairLists
    /\ CallIdle
    /\ IsrIdle
    /\ FastIdle
    /\ CtorIdle
    /\ AsmIdle

NextBind ==
    \/ EvaluatorCallsCtor
    \/ DirectCallOfCtor
    \/ NextCtor

SpecBind == InitBind /\ [][NextBind]_vars

\* lines 124-165, 179: what a construction without perm_pairs leaves in the
\* object
Constructed(e) ==
    LET all == OperatorsOf(Concat(ArgLists(e)))
        ops == IF e.head = "Add" THEN Distinct(all) ELSE all
    IN  /\ operators = ops
        /\ components = SortLetters([i \in 1..Len(ops) |-> ops[i].comp])
        /\ order = Len(ops)
        /\ expr = e

\* a call of evaluate_property_sos_fast, the SumOverStates object of line 712
\* constructed
InitFast ==
    /\ pc = "fast_check"
    /\ err = "none"
    /\ sos_expr \in FastExprs
    /\ omegas \in {<<<<"w", v>>>> : v \in 1..MaxEnergy}
    /\ gamma_val \in GammaVals
    /\ final_state \in {<<>>} \cup {<<"f", j>> : j \in 1..NumStates}
    /\ summation_indices = <<"n">>
    /\ excitation_energy \in EnergyLists
    /\ excluded_cases \in ExcludedCaseLists
    /\ perm_pairs = <<>>
    /\ CalledFast
    /\ IsrIdle
    /\ FastIdle
    /\ Constructed(sos_expr)
    /\ AsmIdle

NextFast ==
    \/ FastBegin
    \/ AnalyseTerm
    \/ RemoveExcludedCases
    \/ CheckDivergences
    \/ ContractTerm

SpecFast == InitFast /\ [][NextFast]_vars

(***************************************************************************)
(* Assembly of the result tensor in evaluate_property_isr and              *)
(* evaluate_property_sos                                                   *)
(***************************************************************************)
RECURSIVE Power(_, _)
Power(b, e) == IF e = 0 THEN 1 ELSE b * Power(b, e - 1)

\* lines 576-578: len(indices), indices the product of the state numbers
\* over the summation indices
NumAssignments == Power(Len(excitation_energy), Len(summation_indices))

\* lines 585-587: state_map of the i-th element of indices, the state number
\* of every summation index
Assignment(i) ==
    [p \in 1..Len(summation_indices) |->
        (((i - 1) \div Power(Len(excitation_energy), Len(summation_indices) - p))
            % Len(excitation_energy)) + 1]

\* an intersection test that never finds an excluded case
NothingExcluded(i) == FALSE

\* lines 566-568, 590-592: the i-th assignment holds an excluded case
StateExcluded(i) ==
    \E k \in 1..Len(excluded_cases) : \E p \in 1..Len(summation_indices) :
        /\ excluded_cases[k].index = summation_indices[p]
        /\ \/ excluded_cases[k].state = final_state[1] /\ final_state[2] = Assignment(i)[p]
           \/ excluded_cases[k].state = "1" /\ Assignment(i)[p] = 1

\* a comparison with zoo that never finds it
NeverZoo(t) == FALSE

\* lines 436, 640: res == zoo, the term t has a pole at the given numbers
IsZoo(t) == zoo_term = t

\* the terms added to the component before the first term with a pole
RECURSIVE TermsBeforePole(_)
TermsBeforePole(t) ==
    IF t > n_terms THEN n_terms
    ELSE IF IsZoo(t) THEN t - 1
    ELSE TermsBeforePole(t + 1)

\* lines 287-307 of evaluate_property_isr
AsmBeginIsr ==
    /\ pc = "asm"
    /\ evaluator = "isr"
    /\ dtype' = DType(gamma_val)
    /\ res_tens' = Zeros(order)
    /\ comp_ix' = 1
    /\ pc' = "asm_isr"
    /\ UNCHANGED <<err, inputVars, callVars, isrVars, fastVars, ctorVars, subs_dict, evaluator, symmetric,
                   n_terms, zoo_term, computed, term_ix, state_ix>>

\* lines 307-449: one pass of the loop over the components
AssembleComponentIsr ==
    /\ pc = "asm_isr"
    /\ LET c == Components(symmetric, order)[comp_ix]
           n == TermsBeforePole(1)
           rt == [res_tens EXCEPT ![c] = @ + SumOfTerms(n, 0, c)]
       IN  /\ computed' = IF n > 0 THEN computed \cup {c} ELSE computed
           /\ IF n < n_terms
              THEN /\ res_tens' = rt
                   /\ Raise("ZeroDivisionError")
                   /\ comp_ix' = comp_ix
              ELSE /\ res_tens' = IF symmetric THEN CopyToPermutations(rt, c) ELSE rt
                   /\ err' = err
                   /\ IF comp_ix < Len(Components(symmetric, order))
                      THEN comp_ix' = comp_ix + 1 /\ pc' = pc
                      ELSE comp_ix' = comp_ix /\ pc' = "returned"
    /\ UNCHANGED <<inputVars, callVars, isrVars, fastVars, ctorVars, subs_dict, evaluator, symmetric,
                   n_terms, zoo_term, term_ix, state_ix, dtype>>

\* lines 557-568 of evaluate_property_sos
AsmBeginSos ==
    /\ pc = "asm"
    /\ evaluator = "sos"
    /\ IF excluded_cases # <<>> /\ final_state = <<>>
       THEN Raise("TypeError") /\ UNCHANGED <<res_tens, term_ix, state_ix, comp_ix, dtype>>
       ELSE /\ dtype' = DType(gamma_val)
            /\ res_tens' = Zeros(order)
            /\ term_ix' = 1
            /\ state_ix' = 1
            /\ comp_ix' = 1
            /\ pc' = "asm_sos"
            /\ err' = err
    /\ UNCHANGED <<inputVars, callVars, isrVars, fastVars, ctorVars, subs_dict, evaluator, symmetric,
                   n_terms, zoo_term, computed>>

\* the loops over the terms and the values of the summation index move on
NextIndex ==
    IF state_ix < NumAssignments
    THEN state_ix' = state_ix + 1 /\ term_ix' = term_ix /\ pc' = pc
    ELSE IF term_ix < n_terms
    THEN state_ix' = 1 /\ term_ix' = term_ix + 1 /\ pc' = pc
    ELSE state_ix' = state_ix /\ term_ix' = term_ix /\ pc' = "returned"

\* lines 578-585: an excluded value of the summation index is skipped
SkipExcludedState ==
    /\ pc = "asm_sos"
    /\ StateExcluded(state_ix)
    /\ NextIndex
    /\ UNCHANGED <<err, inputVars, callVars, isrVars, fastVars, ctorVars, subs_dict, evaluator, symmetric,
                   n_terms, zoo_term, res_tens, computed, comp_ix, dtype>>

\* lines 587-647: one pass of the loop over the components
AssembleComponentSos ==
    /\ pc = "asm_sos"
    /\ ~StateExcluded(state_ix)
    /\ LET c == Components(symmetric, order)[comp_ix]
           rt == [res_tens EXCEPT ![c] = @ + Value(term_ix, state_ix, c)]
       IN  IF IsZoo(term_ix)
           THEN /\ Raise("ZeroDivisionError")
                /\ UNCHANGED <<res_tens, computed, term_ix, state_ix, comp_ix>>
           ELSE /\ res_tens' = IF symmetric THEN CopyToPermutations(rt, c) ELSE rt
                /\ computed' = computed \cup {c}
                /\ err' = err
                /\ IF comp_ix < Len(Components(symmetric, order))
                   THEN /\ comp_ix' = comp_ix + 1
                        /\ UNCHANGED <<pc, term_ix, state_ix>>
                   ELSE comp_ix' = 1 /\ NextIndex
    /\ UNCHANGED <<inputVars, callVars, isrVars, fastVars, ctorVars, subs_dict, evaluator, symmetric,
                   n_terms, zoo_term, dtype>>

\* excluded cases of a double sum over n and m
TwoIndexExcludedCaseLists ==
    {<<>>,
     <<[index |-> "m", state |-> "f"]>>,
     <<[index |-> "m", state |-> "0"]>>,
     <<[index |-> "n", state |-> "1"], [index |-> "m", state |-> "f"]>>}

InitAsm ==
    /\ pc = "asm"
    /\ err = "none"
    /\ evaluator \in {"isr", "sos"}
    /\ symmetric \in BOOLEAN
    /\ order \in 0..MaxOrder
    /\ operators = <<>>
    /\ components = SubSeq(ABC, 1, order)
    /\ n_terms \in 1..MaxTerms
    /\ zoo_term \in 0..n_terms
    /\ gamma_val \in GammaVals
    /\ sos_expr = IF gamma_val = 0 THEN AlphaExpr(0, 0) ELSE AlphaExpr(-1, 1)
    /\ omegas = <<>>
    /\ summation_indices \in {<<"n">>, <<"n", "m">>}
    /\ excitation_energy = [j \in 1..NumStates |-> j]
    /\ final_state \in {<<>>} \cup {<<"f", j>> : j \in 1..NumStates}
    /\ excluded_cases \in IF Len(summation_indices) = 1 THEN ExcludedCaseLists
                          ELSE TwoIndexExcludedCaseLists
    /\ evaluator = "isr" =>
          (final_state = <<>> /\ excluded_cases = <<>> /\ summation_indices = <<"n">>)
    /\ perm_pairs = <<>>
    /\ CalledIsr
    /\ expr = NoExpr
    /\ res_tens = <<>>
    /\ computed = {}
    /\ subs_dict = {}
    /\ term_ix = 0
    /\ state_ix = 0
    /\ comp_ix = 0
    /\ dtype = "None"
    /\ IsrIdle
    /\ FastIdle

NextAsm ==
    \/ AsmBeginIsr
    \/ AssembleComponentIsr
    \/ AsmBeginSos
    \/ SkipExcludedState
    \/ AssembleComponentSos

SpecAsm == InitAsm /\ [][NextAsm]_vars

\* the two evaluators that return the tensor allocated by np.zeros and
\* filled in place: a call of either
InitTensor == InitAsm \/ InitFast

NextTensor == NextAsm \/ NextFast

SpecTensor == InitTensor /\ [][NextTensor]_vars

(***************************************************************************)
(* The substitution dictionary of evaluate_property_isr (lines 313-438).   *)
(* A term of the root expression is the sequence of its factors.  The      *)
(* dictionary is a set of entries [key, val]: the key is the sequence of   *)
(* factors that is replaced, the value names the array elements the        *)
(* number is computed from.                                                *)
(***************************************************************************)
ResponseVectorAtom(no, comp, mtm_type, symmetry) ==
    [t |-> "ResponseVector", no |-> no, comp |-> comp, mtm_type |-> mtm_type,
     symmetry |-> symmetry]

MTMAtom(comp, op_type, symmetry) ==
    [t |-> "MTM", comp |-> comp, op_type |-> op_type, symmetry |-> symmetry]

S2SAtom(comp, op_type) == [t |-> "S2S_MTM", comp |-> comp, op_type |-> op_type]

Adjoint(x) == [t |-> "adjoint", arg |-> x]

LeviCivita == [t |-> "LeviCivita"]

SymbolAtom(name) == [t |-> "Symbol", name |-> name]

\* comp_map[char] for char in list(comp)
CompsOf(comp, c) == <<c[CHOOSE i \in 1..Len(ABC) : ABC[i] = comp]>>

\* response_dict[no][comps], multiplied by sign
StoredVector(rv, c, sign) ==
    [src |-> "response_dict", no |-> rv.no, comps |-> CompsOf(rv.comp, c), sign |-> sign]

\* state.excitation_vector[final_state[1]]
ExcitationVector == [src |-> "excitation_vector", state |-> final_state[2]]

\* the adjoint vector chosen by the symmetry of the operator alone
AdjointBySymmetryOnly(rv, c) ==
    IF rv.symmetry = 1
    THEN [err |-> "none", vec |-> StoredVector(rv, c, 1)]
    ELSE IF rv.symmetry = 2
    THEN [err |-> "none", vec |-> StoredVector(rv, c, -1)]
    ELSE [err |-> "NotImplementedError"]

\* lines 329-334, 369-374, 381-386: the vector taken for the adjoint of the
\* response vector rv
AdjointOfVector(rv, c) ==
    IF rv.mtm_type = S2S_MTM \/ rv.symmetry = 1
    THEN [err |-> "none", vec |-> StoredVector(rv, c, 1)]
    ELSE IF rv.symmetry = 2
    THEN [err |-> "none", vec |-> StoredVector(rv, c, -1)]
    ELSE [err |-> "NotImplementedError"]

\* term.args[j], j counted from 0; a negative j counts from the end
ArgAt(term, j) ==
    IF j < 0 THEN term[Len(term) + j + 1] ELSE term[j + 1]

SetEntry(d, key, val) ==
    [err |-> "none", d |-> {e \in d : e.key # key} \cup {[key |-> key, val |-> val]}]

Failed(e) == [err |-> e]

Skip(d) == [err |-> "none", d |-> d]

\* lines 321-364: vec * X, the response vector a at position i
ResolveVector(term, i, a, c, d) ==
    LET lhs == ArgAt(term, i - 1)
        to_v == StoredVector(a, c, 1)
    IN  IF lhs.t = "S2S_MTM"
        THEN LET lhs2 == ArgAt(term, i - 2)
                 key == <<lhs2, lhs, a>>
                 dips == [src |-> "dips", op_type |-> lhs.op_type, comps |-> CompsOf(lhs.comp, c)]
             IN  IF lhs2.t = "adjoint" /\ lhs2.arg.t = "ResponseVector"
                 THEN LET from_v == AdjointOfVector(lhs2.arg, c)
                      IN  IF from_v.err # "none" THEN Failed(from_v.err)
                          ELSE SetEntry(d, key, [fn |-> "transition_polarizability",
                                                 from_v |-> from_v.vec, dips |-> dips, to_v |-> to_v])
                 ELSE IF lhs2.t = "Bra"
                 THEN IF final_state = <<>> THEN Failed("TypeError")
                      ELSE IF lhs2.label # final_state[1] THEN Failed("AssertionError")
                      ELSE SetEntry(d, key, [fn |-> "transition_polarizability",
                                             from_v |-> ExcitationVector, dips |-> dips, to_v |-> to_v])
                 ELSE Failed("ValueError_expression")
        ELSE IF lhs.t = "adjoint" /\ lhs.arg.t = "MTM"
        THEN IF lhs.arg.symmetry \notin {1, 2} THEN Failed("NotImplementedError")
             ELSE SetEntry(d, <<lhs, a>>,
                           [fn |-> "from_vec_to_vec",
                            from_v |-> [src |-> "mtms", op_type |-> lhs.arg.op_type,
                                        comps |-> CompsOf(lhs.arg.comp, c),
                                        sign |-> IF lhs.arg.symmetry = 1 THEN 1 ELSE -1],
                            to_v |-> to_v])
        ELSE IF lhs.t = "adjoint" /\ lhs.arg.t = "ResponseVector"
        THEN LET left_rvec == AdjointOfVector(lhs.arg, c)
             IN  IF left_rvec.err # "none" THEN Failed(left_rvec.err)
                 ELSE SetEntry(d, <<lhs, a>>, [fn |-> "from_vec_to_vec",
                                               from_v |-> left_rvec.vec, to_v |-> to_v])
        ELSE Failed("ValueError_expression")

\* lines 377-421: Dagger(X) * vec, the adjoint a of a response vector at
\* position i
ResolveAdjointVector(term, i, a, c, d) ==
    IF i + 1 >= Len(term) THEN Failed("IndexError")
    ELSE
    LET rhs == ArgAt(term, i + 1)
        from_v == AdjointOfVector(a.arg, c)
    IN  IF from_v.err # "none" THEN Failed(from_v.err)
        ELSE IF rhs.t = "S2S_MTM"
        THEN IF i + 2 >= Len(term) THEN Failed("IndexError")
             ELSE
             LET rhs2 == ArgAt(term, i + 2)
                 dips == [src |-> "dips", op_type |-> rhs.op_type, comps |-> CompsOf(rhs.comp, c)]
             IN  IF rhs2.t = "ResponseVector" THEN Skip(d)
                 ELSE IF rhs2.t = "Ket"
                 THEN IF final_state = <<>> THEN Failed("TypeError")
                      ELSE IF rhs2.label # final_state[1] THEN Failed("AssertionError")
                      ELSE SetEntry(d, <<a, rhs, rhs2>>,
                                    [fn |-> "transition_polarizability",
                                     from_v |-> from_v.vec, dips |-> dips, to_v |-> ExcitationVector])
                 ELSE Failed("ValueError_expression")
        ELSE IF rhs.t = "MTM"
        THEN SetEntry(d, <<a, rhs>>,
                      [fn |-> "from_vec_to_vec", from_v |-> from_v.vec,
                       to_v |-> [src |-> "mtms", op_type |-> rhs.op_type,
                                 comps |-> CompsOf(rhs.comp, c), sign |-> 1]])
        ELSE IF rhs.t = "ResponseVector" THEN Skip(d)
        ELSE Failed("ValueError_expression")

\* lines 423-433: the dipole moment a
ResolveDipoleMoment(a, c, d) ==
    IF a.from_state = "0" /\ a.to_state = "0"
    THEN SetEntry(d, <<a>>, [src |-> "gs_dip_moment", op_type |-> a.op_type,
                             comps |-> CompsOf(a.comp, c)])
    ELSE IF a.from_state = "0"
    THEN IF final_state = <<>> THEN Failed("TypeError")
         ELSE IF a.to_state = final_state[1]
         THEN SetEntry(d, <<a>>, [src |-> "transition_dipole_moment", op_type |-> a.op_type,
                                  state |-> final_state[2], comps |-> CompsOf(a.comp, c)])
         ELSE Failed("ValueError_dipole")
    ELSE Failed("ValueError_dipole")

\* lines 317-435: the factor at position i (counted from 0) of the term
ResolveFactor(term, i, c, d) ==
    LET a == term[i + 1]
    IN  IF a.t = "ResponseVector" THEN ResolveVector(term, i, a, c, d)
        ELSE IF a.t = "adjoint" /\ a.arg.t = "ResponseVector"
        THEN ResolveAdjointVector(term, i, a, c, d)
        ELSE IF a.t = "DipoleMoment" THEN ResolveDipoleMoment(a, c, d)
        ELSE IF a.t = "LeviCivita"
        THEN SetEntry(d, <<a>>, [src |-> "lc_tensor", comps |-> c])
        ELSE Skip(d)

\* lines 317-435: for i, a in enumerate(term.args), from position i on
RECURSIVE ResolveFactors(_, _, _, _)
ResolveFactors(term, i, c, d) ==
    IF i >= Len(term) THEN Skip(d)
    ELSE LET r == ResolveFactor(term, i, c, d)
         IN  IF r.err # "none" THEN r ELSE ResolveFactors(term, i + 1, c, r.d)

\* lines 314-315: the numbers of the frequencies and of gamma
NumbersDict ==
    {[key |-> <<SymbolAtom(w)>>, val |-> [src |-> "number", value |-> SubsDict(all_omegas)[w]]] :
        w \in DOMAIN SubsDict(all_omegas)}
    \cup {[key |-> <<SymbolAtom("gamma")>>, val |-> [src |-> "number", value |-> gamma_val]]}

\* lines 313-438: one pass of the loop over the terms, for the component
\* tuple c of the pass of the outer loop
SubstituteTerm ==
    /\ pc = "asm_term"
    /\ LET c == Components(symmetric, order)[comp_ix]
           r == ResolveFactors(term_list[term_ix], 0, c, NumbersDict)
       IN  IF r.err # "none"
           THEN Raise(r.err) /\ UNCHANGED <<subs_dict, res_tens, computed, term_ix>>
           ELSE /\ subs_dict' = r.d
                /\ IF IsZoo(term_ix)
                   THEN Raise("ZeroDivisionError") /\ UNCHANGED <<res_tens, computed, term_ix>>
                   ELSE /\ res_tens' = [res_tens EXCEPT ![c] = @ + Value(term_ix, 0, c)]
                        /\ computed' = computed \cup {c}
                        /\ err' = err
                        /\ IF term_ix < Len(term_list)
                           THEN term_ix' = term_ix + 1 /\ pc' = pc
                           ELSE term_ix' = term_ix /\ pc' = "asm_term_done"
    /\ UNCHANGED <<inputVars, callVars, isrVars, ctorVars, evaluator, symmetric, n_terms,
                   zoo_term, state_ix, comp_ix, dtype, term_list, tix, einsum_list,
                   divergences, removed_divergences, contracted>>

\* response vectors of the two kinds, of operators of symmetry 1, 2 and 3
ResponseVectors(no, comp) ==
    {ResponseVectorAtom(no, comp, mt, sy) : mt \in {MTM, S2S_MTM}, sy \in {1, 2, 3}}

\* terms of a root expression
IsrTerms ==
    {<<Adjoint(MTMAtom("A", "electric", sy)), ResponseVectorAtom(1, "B", MTM, 1)>> : sy \in {1, 2, 3}}
    \cup {<<Adjoint(x), MTMAtom("B", "electric", 1)>> : x \in ResponseVectors(1, "A")}
    \cup {<<Adjoint(x), ResponseVectorAtom(2, "B", MTM, 1)>> : x \in ResponseVectors(1, "A")}
    \cup {<<Adjoint(x), S2SAtom("B", "electric"), ResponseVectorAtom(2, "A", MTM, 1)>> :
             x \in ResponseVectors(1, "A")}
    \cup {<<Adjoint(x), S2SAtom("B", "electric"), Ket("f")>> : x \in ResponseVectors(1, "A")}
    \cup {<<Bra("f"), S2SAtom("A", "electric"), ResponseVectorAtom(1, "B", MTM, 1)>>,
          <<MTMAtom("A", "electric", 1), ResponseVectorAtom(1, "B", MTM, 1)>>,
          <<LeviCivita, DipoleMoment("A", "0", "0", "electric")>>}
    \cup {<<DipoleMoment("A", from, to, "electric"), DipoleMoment("B", "0", "0", "electric")>> :
             from \in {"0", "f", "n"}, to \in {"0", "f", "n"}}

IsrTermLists == UNION {[1..k -> IsrTerms] : k \in 1..MaxTerms}

\* the loop over the terms is entered for a component tuple c: res_tens is
\* allocated, the response arrays of the placeholders 1 and 2 are bound
InitSubs ==
    /\ pc = "asm_term"
    /\ err = "none"
    /\ evaluator = "isr"
    /\ symmetric = FALSE
    /\ order = 2
    /\ operators = <<>>
    /\ components = SubSeq(ABC, 1, order)
    /\ term_list \in IsrTermLists
    /\ n_terms = Len(term_list)
    /\ zoo_term \in {0, n_terms}
    /\ gamma_val = 0
    /\ sos_expr = AlphaExpr(0, 0)
    /\ omegas = <<<<"w_1", 1>>, <<"w_2", 2>>>>
    /\ summation_indices = <<"n">>
    /\ excitation_energy = [j \in 1..NumStates |-> j]
    /\ final_state \in {<<>>} \cup {<<"f", j>> : j \in 1..NumStates}
    /\ excluded_cases = <<>>
    /\ perm_pairs = <<>>
    /\ CalledIsr
    /\ expr = NoExpr
    /\ rvecs_dict_list = <<>>
    /\ ti = 0
    /\ rvecs_dict_mod = <<>>
    /\ ki = 0
    /\ response_dict = [x \in 1..2 |-> [batch |-> x, rank |-> 1]]
    /\ solve_log = <<>>
    /\ res_tens = Zeros(order)
    /\ computed = {}
    /\ subs_dict = {}
    /\ term_ix = 1
    /\ state_ix = 0
    /\ comp_ix = 2
    /\ dtype = DType(gamma_val)
    /\ tix = 0
    /\ einsum_list = <<>>
    /\ divergences = <<>>
    /\ removed_divergences = {}
    /\ contracted = <<>>

NextSubs == SubstituteTerm

SpecSubs == InitSubs /\ [][NextSubs]_vars

(***************************************************************************)
(* The calls of evaluate_property_isr and evaluate_property_sos_fast from  *)
(* their first line                                                        *)
(***************************************************************************)
\* a second name for the list given: what is appended under one name is
\* appended under the other
SameList(l) == [val |-> l, shared |-> TRUE]

\* line 189, omegas.copy(): a new list of the same pairs
ListCopy(l) == [val |-> l, shared |-> FALSE]

\* lines 198-200 and 712-714: the constructor leaves operators, components,
\* order and expr of an expression that passes its tests, with no perm_pairs
ConstructOperators(e) ==
    LET all == OperatorsOf(Concat(ArgLists(e)))
    IN  IF e.head = "Add" THEN Distinct(all) ELSE all

\* lines 180-203
IsrBegin ==
    /\ pc = "call_isr"
    /\ LET c == ListCopy(omegas)
           appended == AllOmegas(c.val, final_state, excitation_energy)
       IN  /\ all_omegas' = appended
           /\ omegas' = IF c.shared THEN appended ELSE omegas
    /\ operators' = ConstructOperators(sos_expr)
    /\ components' = SortLetters([i \in 1..Len(ConstructOperators(sos_expr)) |->
                                     ConstructOperators(sos_expr)[i].comp])
    /\ order' = Len(ConstructOperators(sos_expr))
    /\ expr' = sos_expr
    /\ adcc_prop_dict' = OperatorTypes(sos_expr)
    /\ pc' = "check"
    /\ UNCHANGED <<err, sos_expr, gamma_val, final_state, summation_indices,
                   excitation_energy, excluded_cases, perm_pairs,
                   isrVars, fastVars, asmVars>>

\* lines 694-717
FastCall ==
    /\ pc = "call_fast"
    /\ operators' = ConstructOperators(sos_expr)
    /\ components' = SortLetters([i \in 1..Len(ConstructOperators(sos_expr)) |->
                                     ConstructOperators(sos_expr)[i].comp])
    /\ order' = Len(ConstructOperators(sos_expr))
    /\ expr' = sos_expr
    /\ adcc_prop_dict' = OperatorTypes(sos_expr)
    /\ pc' = "fast_check"
    /\ UNCHANGED <<err, inputVars, all_omegas, isrVars, fastVars, asmVars>>

\* what an earlier call may have left in the names of the two memo maps
EarlierResponseDicts == {EmptyDict, [x \in {1} |-> [batch |-> 0, rank |-> 1]]}

EarlierPropDicts == {{}, {"magnetic"}}

\* a call of evaluate_property_isr on a damped product that ends in |f> or in
\* the ground state
InitCallIsr ==
    /\ pc = "call_isr"
    /\ err = "none"
    /\ sos_expr \in {ProductExpr("f", -1), ProductExpr("0", -1)}
    /\ omegas \in OmegaLists
    /\ gamma_val \in GammaVals
    /\ final_state \in FinalStates
    /\ summation_indices = <<"n">>
    /\ excitation_energy = <<1, 2>>
    /\ excluded_cases = <<>>
    /\ perm_pairs = <<>>
    /\ all_omegas = <<>>
    /\ adcc_prop_dict \in EarlierPropDicts
    /\ rvecs_dict_list = <<>>
    /\ ti = 0
    /\ rvecs_dict_mod = <<>>
    /\ ki = 0
    /\ response_dict \in EarlierResponseDicts
    /\ solve_log = <<>>
    /\ FastIdle
    /\ CtorIdle
    /\ AsmIdle

\* a call of evaluate_property_sos_fast
InitCallFast ==
    /\ pc = "call_fast"
    /\ err = "none"
    /\ sos_expr \in FastExprs
    /\ omegas \in {<<<<"w", v>>>> : v \in 1..MaxEnergy}
    /\ gamma_val \in GammaVals
    /\ final_state \in {<<>>} \cup {<<"f", j>> : j \in 1..NumStates}
    /\ summation_indices = <<"n">>
    /\ excitation_energy \in EnergyLists
    /\ excluded_cases \in ExcludedCaseLists
    /\ perm_pairs = <<>>
    /\ all_omegas = <<>>
    /\ adcc_prop_dict \in EarlierPropDicts
    /\ IsrIdle
    /\ FastIdle
    /\ CtorIdle
    /\ AsmIdle

InitEval == InitCallIsr \/ InitCallFast

NextEval ==
    \/ IsrBegin
    \/ FastCall
    \/ NextIsr
    \/ NextFast

SpecEval == InitEval /\ [][NextEval]_vars

(***************************************************************************)
(* Properties of the solve loop of evaluate_property_isr                   *)
(***************************************************************************)
\* placeholders of the tree entries 1..n
PlaceholdersUpTo(n) ==
    UNION {{rvecs_dict_list[e][j].val : j \in 1..Len(rvecs_dict_list[e])} :
              e \in 1..n}

CurIsResponseVectorProduct ==
    /\ pc = "solve"
    /\ Cur.key.kind = S2S_MTM
    /\ Cur.key.k4 = ResponseVector

\* C1: within one call no canonical solve request is handed to the solver
\* more than once, counted over all entries of the tree.
NoRequestSolvedTwice ==
    \A i \in 1..Len(solve_log) : \A j \in 1..Len(solve_log) :
        i < j => solve_log[i].key # solve_log[j].key

\* C2: the entries are processed in list order and, whenever a product
\* request built from the response vector X is handled, the memo map already
\* holds X; no lookup of an unresolved placeholder occurs.
DependencyMemoized ==
    /\ CurIsResponseVectorProduct => Cur.key.k5 \in DOMAIN response_dict
    /\ err # "KeyError"
    /\ pc \in {"rewrite", "solve"} =>
          /\ PlaceholdersUpTo(ti - 1) \subseteq DOMAIN response_dict
          /\ DOMAIN response_dict \subseteq PlaceholdersUpTo(ti)

\* C2 witness: a product request built from a response vector was solved
ResponseVectorProductSolved ==
    \E i \in 1..Len(solve_log) : solve_log[i].key.k4 = ResponseVector

\* C3 as stated: no solve is dispatched for an operator-product request
\* whose damping is nonzero, whatever its right-hand side is built from.
DampedProductNeverSolved ==
    \A i \in 1..Len(solve_log) :
        solve_log[i].key.kind = S2S_MTM => solve_log[i].key.gam = 0

\* C3 amended: a product request built from a resolved response vector whose
\* damping is nonzero raises NotImplementedError and dispatches no solve.
DampedResponseVectorProductRaises ==
    [][(CurIsResponseVectorProduct /\ Cur.key.gam # 0)
          => (err' = "NotImplementedError" /\ solve_log' = solve_log)]_vars

\* C3 witness: the call ended with NotImplementedError
NotImplementedRaised == err = "NotImplementedError"

\* a request that is neither MTM nor a recognised product request
CurIsUnrecognised ==
    /\ pc = "solve"
    /\ \/ Cur.key.kind \notin {MTM, S2S_MTM}
       \/ /\ Cur.key.kind = S2S_MTM
          /\ Cur.key.k4 # ResponseVector
          /\ (final_state = <<>> \/ Cur.key.k4 # final_state[1])

\* C4: an unrecognised request ends the call with the ValueError 'unknown
\* response equation' for every final_state, None included, without a solve.
UnknownEquationRaisesValueError ==
    [][CurIsUnrecognised
          => (err' = "ValueError_unknown" /\ solve_log' = solve_log)]_vars

(***************************************************************************)
(* Properties of the parameter consistency check                           *)
(***************************************************************************)
\* some denominator of the expression contains no imaginary damping term
SomeDenominatorUndamped ==
    \E denom \in DenomList(sos_expr) : \A a \in denom : a.k # "gammaI"

\* some factor of some term is Bra(final state) or Ket(final state)
FinalStateReferenced ==
    \E a \in Range(ArgList(sos_expr)) :
        a.t \in {"Bra", "Ket"} /\ a.label = final_state[1]

\* C5: with a nonzero gamma_val and an undamped denominator the call raises
\* the ValueError about gamma and reaches neither a solve nor the tensor
\* accumulation; with gamma_val zero the check never raises that error.
GammaForRealExpressionRaises ==
    /\ (gamma_val # 0 /\ SomeDenominatorUndamped) =>
          /\ pc \in {"check", "error"}
          /\ pc = "error" => err = "ValueError_gamma"
          /\ rvecs_dict_list = <<>>
          /\ solve_log = <<>>
    /\ gamma_val = 0 => err # "ValueError_gamma"

\* C5 witness: the check raised for a real expression with gamma_val given
GammaErrorRaised ==
    /\ gamma_val # 0
    /\ SomeDenominatorUndamped
    /\ err = "ValueError_gamma"

\* C6 as stated: a designated final state that no factor references makes
\* the check raise 'a final state was mistakenly specified'; otherwise that
\* error is not raised.
UnreferencedFinalStateRaises ==
    /\ (pc # "check" /\ final_state # <<>> /\ ~FinalStateReferenced)
          => err = "ValueError_final"
    /\ (final_state = <<>> \/ FinalStateReferenced) => err # "ValueError_final"

\* C6 amended: the same, unless the gamma check of lines 69-72, which runs
\* first, has already raised its own ValueError.
UnreferencedFinalStateRaisesUnlessGamma ==
    /\ (pc # "check" /\ final_state # <<>> /\ ~FinalStateReferenced)
          => IF gamma_val # 0 /\ SomeDenominatorUndamped
             THEN err = "ValueError_gamma"
             ELSE err = "ValueError_final"
    /\ (final_state = <<>> \/ FinalStateReferenced) => err # "ValueError_final"

\* C6 witness: the final-state error was raised
FinalStateErrorRaised ==
    /\ final_state # <<>>
    /\ ~FinalStateReferenced
    /\ err = "ValueError_final"

(***************************************************************************)
(* Properties of the divergence accounting of evaluate_property_sos_fast   *)
(***************************************************************************)
\* a divergence recorded for the term is not among the removed cases
SomeDivergenceNotRemoved ==
    \E i \in 1..Len(divergences) : divergences[i] \notin removed_divergences

\* the excluded cases of the kinds given whose index occurs in the term and
\* whose pair is not among the recorded divergences
NonDivergentExcluded(kinds) ==
    {i \in 1..Len(excluded_cases) :
        /\ excluded_cases[i].state \in kinds
        /\ \E j \in 1..Len(einsum_list) :
              excluded_cases[i].index \in Range(einsum_list[j].state_str)
        /\ \A d \in 1..Len(divergences) :
              \/ divergences[d].index # excluded_cases[i].index
              \/ excluded_cases[i].state = "0"
              \/ divergences[d].state # final_state[2]}

\* C7 as stated: a term with a recorded divergence that is not among the
\* removed cases makes the call raise ZeroDivisionError; its contraction is
\* not executed.
UnremovedDivergenceRaisesZeroDivision ==
    [][(pc = "reconcile" /\ SomeDivergenceNotRemoved)
          => (err' = "ZeroDivisionError_remaining" /\ contracted' = contracted)]_vars

\* C7 amended: such a term is never contracted, and the call raises
\* ZeroDivisionError unless some removed case is not among the recorded
\* divergences, for which the ValueError of line 846 is raised first.
UnremovedDivergenceAborts ==
    /\ [](pc = "contract" => ~SomeDivergenceNotRemoved)
    /\ [][(pc = "reconcile" /\ SomeDivergenceNotRemoved)
             => /\ contracted' = contracted
                /\ IF removed_divergences \subseteq Range(divergences)
                   THEN err' = "ZeroDivisionError_remaining"
                   ELSE err' = "ValueError_excluded"]_vars

\* C7 witness: the call ended with the ZeroDivisionError of line 853
RemainingDivergenceRaised ==
    /\ err = "ZeroDivisionError_remaining"
    /\ SomeDivergenceNotRemoved

\* C8 as stated: an excluded pair of any kind, ground state included, whose
\* index occurs in the term and which is no recorded divergence makes the
\* call raise ValueError; the term contributes nothing.
NonDivergentExclusionRaises ==
    [][(pc = "reconcile" /\ NonDivergentExcluded({"0", "f", "1"}) # {})
          => (err' = "ValueError_excluded" /\ contracted' = contracted)]_vars

\* C8 amended: the same for the pairs that name the designated final-state
\* symbol; a pair naming the ground state O alone never raises ValueError.
NonDivergentFinalStateExclusionRaises ==
    /\ [](err = "ValueError_excluded" => NonDivergentExcluded({"f"}) # {})
    /\ [][(pc = "reconcile" /\ NonDivergentExcluded({"f"}) # {})
             => (err' = "ValueError_excluded" /\ contracted' = contracted)]_vars

\* C8 witness: the call ended with the ValueError of line 846
NonDivergentExclusionRaised ==
    /\ err = "ValueError_excluded"
    /\ NonDivergentExcluded({"f"}) # {}

(***************************************************************************)
(* Properties of SumOverStates.__init__                                    *)
(***************************************************************************)
\* every summation index occurs as Bra(index) and as Ket(index) among the
\* factors of every additive term
EveryIndexBound ==
    \A i \in 1..Len(summation_indices) : \A a \in 1..Len(ArgLists(sos_expr)) :
        /\ \E j \in 1..Len(ArgLists(sos_expr)[a]) :
              ArgLists(sos_expr)[a][j] = Bra(summation_indices[i])
        /\ \E j \in 1..Len(ArgLists(sos_expr)[a]) :
              ArgLists(sos_expr)[a][j] = Ket(summation_indices[i])

\* C10: the index check of the construction raises ValueError whenever some
\* summation index is not bound as Bra(index) and Ket(index) in every
\* additive term, and passes exactly when every index is bound in every term.
IndexCheckRaisesIffUnbound ==
    [][pc = "ctor_indices"
          => /\ ~EveryIndexBound => (pc' = "error" /\ err' = "ValueError_indices")
             /\ EveryIndexBound => (pc' = "ctor_order" /\ err' = "none")]_vars

\* C10 witness: an index bound on one side only of some term was rejected
OneSidedIndexRejected ==
    /\ err = "ValueError_indices"
    /\ \E i \in 1..Len(summation_indices) : \E a \in 1..Len(ArgLists(sos_expr)) :
          /\ Bra(summation_indices[i]) \in Range(ArgLists(sos_expr)[a])
          /\ Ket(summation_indices[i]) \notin Range(ArgLists(sos_expr)[a])

(***************************************************************************)
(* Properties of the tensor assembly                                       *)
(***************************************************************************)
\* the non-decreasing tuple that c is a permutation of
SortedTuples ==
    [c \in UNION {Tuples(n) : n \in 0..MaxOrder} |->
        CHOOSE s \in Tuples(Len(c)) : NonDecreasing(s) /\ IsPermutation(s, c)]

Sorted(c) == SortedTuples[c]

\* the values of the summation index a term is evaluated for
Passes ==
    IF evaluator = "isr" THEN {0}
    ELSE {i \in 1..NumAssignments : ~StateExcluded(i)}

\* the sum of all contributions to the component tuple c
Accumulated(c) ==
    SumOver(Passes, [i \in Passes |-> SumOfTerms(n_terms, i, c)])

\* C9: on return of a substitution-path evaluator with symmetric=True only
\* non-decreasing component tuples were computed, every cell holds the value
\* accumulated for the non-decreasing tuple it is a permutation of, and
\* result[p] = result[c] for every permutation p of every tuple c; with
\* symmetric=False every tuple was computed on its own.
SymmetricTensorFilledByCopy ==
    pc = "returned" =>
        IF symmetric
        THEN /\ computed = IF Passes = {} THEN {}
                           ELSE {c \in Tuples(order) : NonDecreasing(c)}
             /\ \A c \in Tuples(order) : res_tens[c] = Accumulated(Sorted(c))
             /\ \A c \in Tuples(order) : \A p \in Tuples(order) :
                   IsPermutation(p, c) => res_tens[p] = res_tens[c]
        ELSE /\ computed = IF Passes = {} THEN {} ELSE Tuples(order)
             /\ \A c \in Tuples(order) : res_tens[c] = Accumulated(c)

\* C9 witness: a symmetric tensor with cells that were not computed themselves
SymmetricTensorReturned ==
    /\ pc = "returned"
    /\ symmetric
    /\ computed # {}
    /\ \E c \in Tuples(order) : ~NonDecreasing(c) /\ res_tens[c] # 0

(***************************************************************************)
(* Properties of the inferred tensor order                                 *)
(***************************************************************************)
\* the dipole operators of the entered expression
OperatorsUsed == Range(OperatorsOf(Concat(ArgLists(sos_expr))))

\* the Cartesian component labels these operators carry
LabelsUsed == {o.comp : o \in OperatorsUsed}

\* the first n letters of the alphabet
FirstLetters(n) == {ABC[i] : i \in 1..n}

\* every term holds every operator of the expression once, and no two
\* operators share a label
OneAxisPerOperator ==
    /\ \A a \in 1..Len(ArgLists(sos_expr)) :
          /\ Range(OperatorsOf(ArgLists(sos_expr)[a])) = OperatorsUsed
          /\ Len(OperatorsOf(ArgLists(sos_expr)[a])) = Cardinality(OperatorsUsed)
    /\ Cardinality(LabelsUsed) = Cardinality(OperatorsUsed)

\* C11: a constructed SumOverStates has as order the number of distinct
\* component labels of its dipole operators, the labels being the first
\* order letters; labels that are not a prefix of the alphabet make the
\* construction raise ValueError; operators labelled A,B give order 2 and
\* operators labelled A,B,C give order 3.
OrderIsNumberOfLabels ==
    /\ [](pc \in {"ctor_finish", "constructed"}
            => /\ order = Cardinality(LabelsUsed)
               /\ Range(components) = LabelsUsed
               /\ LabelsUsed = FirstLetters(order))
    /\ [][(pc = "ctor_order" /\ LabelsUsed # FirstLetters(Cardinality(LabelsUsed)))
             => (pc' = "error" /\ err' = "ValueError_components")]_vars
    /\ [][(pc = "ctor_order" /\ OneAxisPerOperator
              /\ LabelsUsed \in {{"A", "B"}, {"A", "B", "C"}})
             => (pc' = "ctor_finish" /\ order' = Cardinality(LabelsUsed))]_vars

\* C11 witness: a sum of two products of the operators A and B was given
\* the order 2
SumOfTwoTermsHasOrderTwo ==
    /\ pc = "constructed"
    /\ sos_expr.head = "Add"
    /\ LabelsUsed = {"A", "B"}
    /\ order = 2

(***************************************************************************)
(* Properties of the type test of the constructor                          *)
(***************************************************************************)
ProductOrSumOfProducts ==
    \/ sos_expr.head = "Mul"
    \/ sos_expr.head = "Add" /\ \A a \in 1..Len(sos_expr.args) : sos_expr.args[a].head = "Mul"

StructureErrors == {"TypeError", "ValueError_indices", "ValueError_components"}

PairOperators == [j \in 1..Len(perm_pairs) |-> perm_pairs[j].op]

\* the pairs name the operators of the term, in the order of the term
PairsInOperatorOrder == PairOperators = OperatorsOf(sos_expr.args)

\* what stands for the frequency of pair j when the pairs are permuted by q,
\* as a multiple of the symbol of pair j
SymbolImage(pairs, q, j) ==
    Freq(pairs[q[j]].freq.s, pairs[j].freq.c * pairs[q[j]].freq.c)

\* two pairs with one symbol never ask for different replacements of it
ConsistentFrequencies ==
    \A i, j \in 1..Len(perm_pairs) :
        perm_pairs[i].freq.s = perm_pairs[j].freq.s =>
            \A n \in 1..Len(permutations(Len(perm_pairs))) :
                SymbolImage(perm_pairs, permutations(Len(perm_pairs))[n], i)
                    = SymbolImage(perm_pairs, permutations(Len(perm_pairs))[n], j)

\* a summand of a denominator with the frequency of every pair j replaced by
\* the frequency of pair q(j)
FrequencyReplaced(a, pairs, q) ==
    IF a.k = "freq" /\ \E j \in 1..Len(pairs) : pairs[j].freq.s = a.s
    THEN LET j == CHOOSE i \in 1..Len(pairs) : pairs[i].freq.s = a.s
             img == SymbolImage(pairs, q, j)
         IN  Freq(img.s, a.c * img.c)
    ELSE a

\* the term with the operator of every pair j replaced by the operator of
\* pair q(j) and, at once, its frequency by the frequency of pair q(j)
PermutedTerm(args, pairs, q) ==
    Mul([i \in 1..Len(args) |->
        IF args[i].t = "DipoleOperator" /\ \E j \in 1..Len(pairs) : pairs[j].op = args[i]
        THEN pairs[q[CHOOSE j \in 1..Len(pairs) : pairs[j].op = args[i]]].op
        ELSE IF args[i].t = "Pow"
        THEN Pow({FrequencyReplaced(a, pairs, q) : a \in args[i].base})
        ELSE args[i]])

AllPermutedTerms(args, pairs) ==
    [n \in 1..Len(permutations(Len(pairs))) |->
        PermutedTerm(args, pairs, permutations(Len(pairs))[n])]

Count(ts, x) == Cardinality({i \in 1..Len(ts) : ts[i] = x})

\* two lists of terms that hold the same terms the same number of times
SameTerms(ts, us) ==
    \A x \in Range(ts) \cup Range(us) : Count(ts, x) = Count(us, x)

\* C13: for a product and pairs that name its operators in its order, the
\* expansion succeeds and sos.expr is the sum of the k! permuted terms, the
\* term itself first; with one pair it is the expression as entered
ExpansionSumsAllPermutations ==
    [][(/\ pc = "ctor_finish"
        /\ sos_expr.head = "Mul"
        /\ perm_pairs # <<>>
        /\ PairsInOperatorOrder
        /\ ConsistentFrequencies) =>
            /\ pc' = "constructed"
            /\ SameTerms(TermsOf(expr'), AllPermutedTerms(sos_expr.args, perm_pairs))
            /\ TermsOf(expr')[1] = sos_expr
            /\ Len(perm_pairs) = 1 => expr' = sos_expr]_vars

\* the place of an operator among the operators of the entered term
PlaceInTerm(op) ==
    CHOOSE i \in 1..Len(OperatorsOf(sos_expr.args)) : OperatorsOf(sos_expr.args)[i] = op

\* any two pairs whose operators occur in the term stand in the order in
\* which these operators occur in the term
PairsFollowTermOrder ==
    \A i, j \in 1..Len(perm_pairs) :
        (/\ i < j
         /\ perm_pairs[i].op \in Range(OperatorsOf(sos_expr.args))
         /\ perm_pairs[j].op \in Range(OperatorsOf(sos_expr.args))) =>
            PlaceInTerm(perm_pairs[i].op) < PlaceInTerm(perm_pairs[j].op)

\* C14: the expansion of a product raises the ordering ValueError exactly
\* when the pairs do not follow the order of the operators in the term, and
\* an expansion that raises it assigns no expression
OrderingErrorIffOutOfOrder ==
    [][(pc = "ctor_finish" /\ sos_expr.head = "Mul" /\ perm_pairs # <<>>) =>
            /\ (pc' = "error" /\ err' = "ValueError_order") <=> ~PairsFollowTermOrder
            /\ err' = "ValueError_order" => expr' = NoExpr]_vars

\* the entered expression is what the expansion of one of its terms with
\* the given pairs returns
AlreadyExpanded ==
    \E a \in 1..Len(TermsOf(sos_expr)) :
        LET r == BuildSosViaPermutation(TermsOf(sos_expr)[a], perm_pairs)
        IN  r.err = "none" /\ SameTerms(TermsOf(r.expr), TermsOf(sos_expr))

\* C15 as stated: the expansion of an expanded expression with the same
\* pairs succeeds and returns the terms it was given
ExpansionIdempotent ==
    [][(pc = "ctor_finish" /\ perm_pairs # <<>> /\ AlreadyExpanded) =>
            (pc' = "constructed" /\ SameTerms(TermsOf(expr'), TermsOf(sos_expr)))]_vars

\* C15: the expansion takes a product only; given a sum, an expanded
\* expression of two or more pairs included, it fails the assertion on the
\* type of the term and assigns no expression; the expansion of an expanded
\* expression returns what it was given when there is one pair
ExpansionOfSumFails ==
    /\ [][(pc = "ctor_finish" /\ perm_pairs # <<>> /\ sos_expr.head = "Add") =>
             (pc' = "error" /\ err' = "AssertionError" /\ expr' = NoExpr)]_vars
    /\ [][(pc = "ctor_finish" /\ Len(perm_pairs) = 1 /\ AlreadyExpanded) =>
             (pc' = "constructed" /\ expr' = sos_expr)]_vars

ExpandedSumRejected ==
    /\ err = "AssertionError"
    /\ Len(perm_pairs) = 3
    /\ Len(TermsOf(sos_expr)) = 6
    /\ AlreadyExpanded

(***************************************************************************)
(* Properties of the substitution of numbers into the terms                *)
(***************************************************************************)
\* C16: a pass of evaluate_property_isr or evaluate_property_sos that meets
\* a term with a pole raises ZeroDivisionError and adds nothing for this
\* term; a call that returns a tensor has met no such term
PoleRaisesZeroDivision ==
    /\ [][(pc = "asm_isr" /\ zoo_term # 0) =>
             /\ pc' = "error"
             /\ err' = "ZeroDivisionError"
             /\ \A c \in DOMAIN res_tens :
                   res_tens'[c] = res_tens[c]
                       + (IF c = Components(symmetric, order)[comp_ix]
                          THEN SumOfTerms(zoo_term - 1, 0, c) ELSE 0)]_vars
    /\ [][(pc = "asm_sos" /\ ~StateExcluded(state_ix) /\ zoo_term = term_ix) =>
             (pc' = "error" /\ err' = "ZeroDivisionError" /\ res_tens' = res_tens)]_vars
    /\ []((pc = "returned" /\ zoo_term # 0) =>
             /\ evaluator = "sos"
             /\ \A i \in 1..NumAssignments : StateExcluded(i))

PoleOfSecondTermRaised ==
    /\ err = "ZeroDivisionError"
    /\ evaluator = "sos"
    /\ zoo_term = 2
    /\ computed # {}

(***************************************************************************)
(* Properties of the returned tensor                                       *)
(***************************************************************************)
\* evaluate_property_isr or evaluate_property_sos_fast has returned res_tens
TensorReturned ==
    \/ pc = "returned" /\ evaluator = "isr"
    \/ pc = "done"

\* C17: the tensor evaluate_property_isr and evaluate_property_sos_fast
\* return has one axis of length 3 for each of the order components of the
\* expression, and its elements are real when gamma_val is 0 and complex
\* otherwise
ReturnedTensorShapeAndType ==
    TensorReturned =>
        /\ DOMAIN res_tens = [1..order -> 0..2]
        /\ Cardinality(DOMAIN res_tens) = Pow3(order)
        /\ gamma_val = 0 => dtype = "float"
        /\ gamma_val # 0 => dtype = "complex"

ComplexTensorReturnedByFast ==
    /\ pc = "done"
    /\ gamma_val # 0
    /\ dtype = "complex"
    /\ order = 2
    /\ Len(contracted) = 2

(***************************************************************************)
(* Properties of the calls of the evaluators                               *)
(***************************************************************************)
\* no conversion, tree, term list, solve or accumulation has taken place
NothingDone ==
    /\ rvecs_dict_list = <<>>
    /\ rvecs_dict_mod = <<>>
    /\ solve_log = <<>>
    /\ term_list = <<>>
    /\ einsum_list = <<>>
    /\ contracted = <<>>
    /\ res_tens = <<>>

CheckFails == CheckOmegasAndFinalState(sos_expr, gamma_val, final_state) # "ok"

\* C19: up to the consistency check of evaluate_property_isr and
\* evaluate_property_sos_fast nothing has been converted, built, solved or
\* accumulated; a check that fails ends the call in this state with the
\* error of the check; the step of the check changes no argument
CheckPrecedesAllWork ==
    /\ [](pc \in {"call_isr", "call_fast", "check", "fast_check"} => NothingDone)
    /\ [][(pc \in {"check", "fast_check"} /\ CheckFails) =>
             /\ pc' = "error"
             /\ err' \in {"ValueError_gamma", "ValueError_final"}
             /\ NothingDone']_vars
    /\ [][(pc \in {"check", "fast_check"}) => UNCHANGED inputVars]_vars

FailedCheckOfIsrCall ==
    /\ pc = "error"
    /\ err = "ValueError_final"
    /\ all_omegas # <<>>
    /\ adcc_prop_dict # {}
    /\ NothingDone

\* C20: no step of a call changes the caller's lists omegas,
\* summation_indices and excluded_cases, the pair of the final state is in
\* all_omegas only; after line 210 the map of solve results holds results
\* of solves of this call only, and after the first lines the map of
\* properties holds the operator types of this call's expression only
CallLeavesListsAndStartsEmpty ==
    /\ [][UNCHANGED <<omegas, summation_indices, excluded_cases>>]_vars
    /\ [][(pc = "call_isr") =>
             all_omegas' = IF final_state = <<>> THEN omegas
                           ELSE Append(omegas, <<"w_f", excitation_energy[final_state[2]]>>)]_vars
    /\ [](pc \in {"rewrite", "solve", "assemble"} =>
             \A x \in DOMAIN response_dict :
                 response_dict[x].batch \in 1..Len(solve_log))
    /\ [](pc \notin {"call_isr", "call_fast"} => adcc_prop_dict = OperatorTypes(sos_expr))

FinalStateFrequencyInCopyOnly ==
    /\ pc = "solve"
    /\ final_state # <<>>
    /\ Len(all_omegas) = Len(omegas) + 1
    /\ DOMAIN response_dict # {}

(***************************************************************************)
(* Properties of the numbers inserted for the frequencies                  *)
(***************************************************************************)
\* C21: the frequency of every request of the tree entry at hand stands in
\* its rewritten key with the number that the substitution of the tensor
\* assembly holds for this symbol
OneValuePerFrequency ==
    pc = "solve" =>
        \A i \in 1..Len(rvecs_dict_list[ti]) :
            \E e \in 1..Len(rvecs_dict_mod) :
                /\ rvecs_dict_list[ti][i].val \in Range(rvecs_dict_mod[e].vals)
                /\ rvecs_dict_mod[e].key.om = SubsDict(all_omegas)[rvecs_dict_list[ti][i].key.w]

(***************************************************************************)
(* Properties of the call of the constructor                               *)
(***************************************************************************)
\* C22: the constructor call of an evaluator, with or without excluded
\* cases, is accepted: it raises no error for its keywords
EvaluatorCallAccepted ==
    err # "TypeError_keyword"

(***************************************************************************)
(* Properties of the right-hand-side solves                                *)
(***************************************************************************)
\* C23: a step that serves a right-hand-side (MTM) request on an operator of
\* rank d dispatches one batch of 3^d solves (3 for rank 1, 9 for rank 2)
\* at minus the frequency of the key, all with the real right-hand side and
\* damping 0 if the damping of the key is 0, all with the wrapped
\* right-hand side and minus the damping of the key otherwise
MTMDispatch ==
    [][(pc = "solve" /\ rvecs_dict_mod[ki].key.kind = MTM) =>
          LET k == rvecs_dict_mod[ki].key
              b == solve_log'[Len(solve_log')]
          IN  /\ Len(solve_log') = Len(solve_log) + 1
              /\ SubSeq(solve_log', 1, Len(solve_log)) = solve_log
              /\ b.key = k
              /\ b.count = (IF OpDim(k.op_type) = 1 THEN 3 ELSE 9)
              /\ b.omega = 0 - k.om
              /\ IF k.gam = 0
                 THEN b.rhs = "real" /\ b.gamma = 0
                 ELSE b.rhs = "complex" /\ b.gamma = 0 - k.gam]_vars

\* nine solves of a rank-2 operator were dispatched with the wrapped
\* right-hand side
QuadrupoleSolvedWithDamping ==
    \E i \in 1..Len(solve_log) :
        /\ solve_log[i].key.kind = MTM
        /\ solve_log[i].key.op_type = "electric_quadrupole"
        /\ solve_log[i].count = 9
        /\ solve_log[i].rhs = "complex"
        /\ solve_log[i].gamma # 0

(***************************************************************************)
(* Properties of the memo map at the end of the solve loop                 *)
(***************************************************************************)
\* placeholders of one tree entry whose requests have the same rewritten key
SharedKey(t, i, j) ==
    NewKey(rvecs_dict_list[t][i].key, all_omegas, gamma_val)
        = NewKey(rvecs_dict_list[t][j].key, all_omegas, gamma_val)

\* C24: when the solve loop has ended without an error, the memo map holds
\* an array for every placeholder of the tree, and placeholders that shared
\* one rewritten key within an entry hold the same array; a step of the
\* loop binds all placeholders of its request or ends the call with an
\* error, and leaves the arrays bound before as they are
MemoMapComplete ==
    /\ [](pc = "assemble" =>
            /\ DOMAIN response_dict = PlaceholdersUpTo(Len(rvecs_dict_list))
            /\ \A t \in 1..Len(rvecs_dict_list) :
                 \A i, j \in 1..Len(rvecs_dict_list[t]) :
                    SharedKey(t, i, j) =>
                        response_dict[rvecs_dict_list[t][i].val]
                            = response_dict[rvecs_dict_list[t][j].val])
    /\ [][pc = "solve" =>
            \/ /\ err' = err
               /\ Range(rvecs_dict_mod[ki].vals) \subseteq DOMAIN response_dict'
               /\ Range(rvecs_dict_mod[ki].vals) \cap DOMAIN response_dict = {}
            \/ /\ pc' = "error"
               /\ err' # "none"
               /\ response_dict' = response_dict]_vars
    /\ [][\A x \in DOMAIN response_dict :
            x \in DOMAIN response_dict' /\ response_dict'[x] = response_dict[x]]_vars

\* the loop ended without an error on a tree with an entry in which two
\* placeholders shared one rewritten key
SharedRequestBound ==
    /\ pc = "assemble"
    /\ \E t \in 1..Len(rvecs_dict_list) :
          \E i, j \in 1..Len(rvecs_dict_list[t]) : i # j /\ SharedKey(t, i, j)

(***************************************************************************)
(* Properties of the substitution dictionary of evaluate_property_isr      *)
(***************************************************************************)
IsAdjointVector(x) == x.t = "adjoint" /\ x.arg.t = "ResponseVector"

\* the response vectors whose adjoint is a factor of the term
AdjointVectorsOf(term) ==
    {term[i].arg : i \in {j \in 1..Len(term) : IsAdjointVector(term[j])}}

\* the term the next pass of the loop substitutes
TermAtHand == term_list[term_ix]

\* C25 as stated: the adjoint of a response vector enters a contraction as
\* stored if the symmetry of the operator is 1 and multiplied by -1 if it is
\* 2, and a term with the adjoint of a response vector of any other symmetry
\* ends the call with NotImplementedError, whatever the kind of the vector
AdjointSignBySymmetry ==
    /\ [](\A e \in subs_dict :
            IsAdjointVector(e.key[1]) =>
                /\ e.key[1].arg.symmetry \in {1, 2}
                /\ e.val.from_v.sign = IF e.key[1].arg.symmetry = 1 THEN 1 ELSE -1)
    /\ [][(pc = "asm_term" /\ \E x \in AdjointVectorsOf(TermAtHand) : x.symmetry \notin {1, 2})
             => err' = "NotImplementedError"]_vars

\* C25 amended: the adjoint of a response vector that was computed from the
\* B matrix (mtm_type S2S_MTM) enters as stored whatever the symmetry of the
\* operator and raises nothing; the adjoint of a response vector of a
\* right-hand-side solve enters as stored for symmetry 1, multiplied by -1
\* for symmetry 2, and ends the call with NotImplementedError otherwise
AdjointSignByKindAndSymmetry ==
    /\ [](\A e \in subs_dict :
            IsAdjointVector(e.key[1]) =>
                IF e.key[1].arg.mtm_type = S2S_MTM
                THEN e.val.from_v.sign = 1
                ELSE /\ e.key[1].arg.symmetry \in {1, 2}
                     /\ e.val.from_v.sign = IF e.key[1].arg.symmetry = 1 THEN 1 ELSE -1)
    /\ [][(pc = "asm_term" /\ \E x \in AdjointVectorsOf(TermAtHand) :
                                 x.mtm_type = MTM /\ x.symmetry \notin {1, 2})
             => err' = "NotImplementedError"]_vars
    /\ [][(pc = "asm_term" /\ AdjointVectorsOf(TermAtHand) # {}
                           /\ \A x \in AdjointVectorsOf(TermAtHand) : x.mtm_type = S2S_MTM)
             => err' # "NotImplementedError"]_vars

\* the adjoint of a response vector computed from the B matrix, of an
\* operator that is not Hermitian, was contracted as stored
ProductVectorAdjointUsedAsStored ==
    \E e \in subs_dict :
        /\ IsAdjointVector(e.key[1])
        /\ e.key[1].arg.mtm_type = S2S_MTM
        /\ e.key[1].arg.symmetry = 3
        /\ e.val.from_v.sign = 1

\* the dipole moments among the factors of the term
DipoleMomentsOf(term) ==
    {term[i] : i \in {j \in 1..Len(term) : term[j].t = "DipoleMoment"}}

\* what the dictionary holds for every dipole moment of the term substituted
\* last: the ground-state dipole moment for the atom from "0" to "0", the
\* transition dipole moment of the state final_state[1] for the atom from
\* "0" to the final state, both at the component of the atom
DipoleMomentsResolved ==
    \A e \in subs_dict :
        e.key[1].t = "DipoleMoment" =>
            LET a == e.key[1]
                comps == CompsOf(a.comp, Components(symmetric, order)[comp_ix])
            IN  \/ /\ a.from_state = "0" /\ a.to_state = "0"
                   /\ e.val = [src |-> "gs_dip_moment", op_type |-> a.op_type, comps |-> comps]
                \/ /\ final_state # <<>>
                   /\ a.from_state = "0" /\ a.to_state = final_state[1]
                   /\ e.val = [src |-> "transition_dipole_moment", op_type |-> a.op_type,
                               state |-> final_state[2], comps |-> comps]

\* C26: every dipole moment of the root expression is resolved by its state
\* names, ground to ground as the ground-state dipole moment, ground to
\* final state as the transition dipole moment of the final-state number,
\* and a term with a dipole moment of any other pair of states ends the call
\* with the ValueError of line 433
DipoleMomentByStateNames ==
    /\ []DipoleMomentsResolved
    /\ [][(pc = "asm_term"
             /\ \E a \in DipoleMomentsOf(TermAtHand) :
                  /\ ~(a.from_state = "0" /\ a.to_state = "0")
                  /\ ~(a.from_state = "0" /\ final_state # <<>>
                                           /\ a.to_state = final_state[1]))
             => err' = "ValueError_dipole"]_vars

(***************************************************************************)
(* Properties of the recording of the divergences                          *)
(***************************************************************************)
\* the denominators of the term with the transition frequency of a
\* summation index and numbers for all other summands
IndexedDenominators(args) ==
    {args[i].base : i \in {j \in 1..Len(args) :
        /\ args[j].t = "Pow"
        /\ IndexAtoms(args[j].base, summation_indices) # {}
        /\ Unresolved(args[j].base, omegas, final_state, summation_indices) = {}}}

\* C27: when a term is analysed, every state j at which a denominator with
\* the transition frequency of the summation index i and the shift s has
\* excitation_energy[j] + s = 0 is recorded as the divergence (i, j) of the
\* term, and the analysis raises nothing for it
EveryDivergenceRecorded ==
    [][(pc = "analyse") =>
          \A b \in IndexedDenominators(term_list[tix]) :
             \A j \in InfStates(b, omegas, final_state, gamma_val, excitation_energy) :
                /\ err' # "AssertionError"
                /\ err' = "none" =>
                      \E d \in 1..Len(divergences') :
                         /\ divergences'[d].state = j
                         /\ divergences'[d].index \in
                               {x.s : x \in IndexAtoms(b, summation_indices)}]_vars

(***************************************************************************)
(* Properties of the contraction of a term                                 *)
(***************************************************************************)
\* the component labels of the factors of a term of the fast evaluator
LabelsOfTerm(args) ==
    UNION {IF args[i].t = "DipoleMoment" THEN {args[i].comp}
           ELSE IF args[i].t = "LeviCivita" THEN {"A", "B", "C"}
           ELSE {} : i \in 1..Len(args)}

\* the product of the numeric factors of a term
RECURSIVE Prefactor(_)
Prefactor(args) ==
    IF args = <<>> THEN 1
    ELSE (IF Head(args).t = "Number" THEN Head(args).v ELSE 1) * Prefactor(Tail(args))

\* C28: the contraction of a term has as output subscript the component
\* labels of the factors of the term, each once and in alphabetical order;
\* the labels of the summation indices stand on the input side only; the
\* result, multiplied by the product of the numeric factors of the term, is
\* added to the result tensor
ContractionOfTerm ==
    /\ [](\A k \in 1..Len(contracted) :
            LET r == contracted[k]
            IN  /\ Range(r.right) = LabelsOfTerm(term_list[r.term])
                /\ \A i, j \in 1..Len(r.right) :
                      i < j => LetterIndex(r.right[i]) < LetterIndex(r.right[j])
                /\ \A s \in Range(summation_indices) :
                      /\ s \notin Range(r.right)
                      /\ \E i \in 1..Len(r.left) : s \in Range(r.left[i])
                /\ r.factor = Prefactor(term_list[r.term]))
    /\ [][pc = "contract" =>
            /\ Len(contracted') = Len(contracted) + 1
            /\ \A c \in DOMAIN res_tens :
                  res_tens'[c] = res_tens[c] + Prefactor(term_list[tix]) * Value(tix, 0, c)]_vars

\* a term with a numeric factor other than 1 whose labels stand in the
\* order B, A in its factors was contracted
PrefactorTermContracted ==
    \E k \in 1..Len(contracted) :
        /\ contracted[k].factor = 2
        /\ contracted[k].right = <<"A", "B">>
        /\ \E i, j \in 1..Len(term_list[contracted[k].term]) :
              /\ i < j
              /\ term_list[contracted[k].term][i].t = "DipoleMoment"
              /\ term_list[contracted[k].term][j].t = "DipoleMoment"
              /\ term_list[contracted[k].term][i].comp = "B"
              /\ term_list[contracted[k].term][j].comp = "A"

(***************************************************************************)
(* Properties of the excluded cases of evaluate_property_sos               *)
(***************************************************************************)
\* the state number an excluded case stands for: the number of the final
\* state for the final-state symbol, the number itself for a number, none
\* (0) for the ground state O
CaseNumber(case) ==
    IF case.state = final_state[1] THEN final_state[2]
    ELSE IF case.state = "1" THEN 1
    ELSE 0

\* at least one (index, state) pair of the i-th assignment is an excluded case
HoldsExcludedCase(i) ==
    \E p \in 1..Len(summation_indices) : \E k \in 1..Len(excluded_cases) :
        /\ excluded_cases[k].index = summation_indices[p]
        /\ CaseNumber(excluded_cases[k]) = Assignment(i)[p]

InSequence(x) == x.t \in {"Bra", "DipoleOperator", "Ket"}

OutsideSequence(x) == ~InSequence(x)

NoDipoleMoment(x) == x.t # "DipoleMoment"

IsDipoleMoment(x) == x.t = "DipoleMoment"

\* the dipole moments that stand for the Bra*operator*Ket sequences of the
\* factors given, in the order of the sequences
MomentsOfSequences(args) ==
    LET at == {j \in 1..(Len(args) - 2) :
                  /\ args[j].t = "Bra"
                  /\ args[j + 1].t = "DipoleOperator"
                  /\ args[j + 2].t = "Ket"}
    IN  [i \in 1..Cardinality(at) |->
            LET j == CHOOSE k \in at : Cardinality({m \in at : m <= k}) = i
            IN  [t |-> "DipoleMoment", comp |-> args[j + 1].comp,
                 op_type |-> args[j + 1].op_type,
                 from_state |-> args[j + 2].label, to_state |-> args[j].label]]

\* C30: every term of the list of the fast evaluator is the product it was
\* made from with each Bra(x)*operator*Ket(y) sequence replaced by one dipole
\* moment of the component and type of the operator, from_state y and
\* to_state x, and with every other factor as it was
SequencesReplaced ==
    term_list # <<>> =>
        /\ Len(term_list) = Len(ArgLists(sos_expr))
        /\ \A i \in 1..Len(term_list) :
              LET args == ArgLists(sos_expr)[i]
              IN  /\ SelectSeq(term_list[i], IsDipoleMoment) = MomentsOfSequences(args)
                  /\ SelectSeq(term_list[i], NoDipoleMoment) = SelectSeq(args, OutsideSequence)
                  /\ \A j \in 1..Len(term_list[i]) : ~InSequence(term_list[i][j])

\* the list holds a term with the dipole moment from n to f, made from
\* Bra(f)*operator*Ket(n), next to a denominator
TransitionToFinalStateReplaced ==
    \E i \in 1..Len(term_list) :
        /\ \E j \in 1..Len(term_list[i]) :
              /\ term_list[i][j].t = "DipoleMoment"
              /\ term_list[i][j].from_state = "n"
              /\ term_list[i][j].to_state = "f"
        /\ \E j \in 1..Len(term_list[i]) : term_list[i][j].t = "Pow"

====
